---- MODULE Spec2Model ----
(***************************************************************************)
(* The chat-to-n8n workflow compiler of src/unnamed/part_003:              *)
(* generateN8NWorkflow with its three lookup helpers, saveWorkflowPlan,    *)
(* createPlanningTasks and the chat2Workflow pipeline that runs them.      *)
(*                                                                         *)
(* JavaScript strings that the code inspects (trigger kinds, step types)   *)
(* are sequences of one-character strings, so that toLowerCase and the     *)
(* property lookups of the tables are computed and not assumed.  Strings   *)
(* the code only copies (names, node-type identifiers) are TLA+ strings.   *)
(***************************************************************************)
EXTENDS Integers, Sequences, FiniteSets, TLC

VARIABLES
    pc,                 \* position of the running call
    plan,               \* analysis.plan, the WorkflowPlan being compiled
    nodes,              \* generateN8NWorkflow: const nodes
    connections,        \* generateN8NWorkflow: const connections
    yOffset,            \* generateN8NWorkflow: let yOffset
    index,              \* generateN8NWorkflow: forEach index
    n8nWorkflow,        \* the value generateN8NWorkflow returned
    workflow_registry,  \* rows of the workflow_registry table
    tasks,              \* createPlanningTasks: tasks not yet inserted
    planning_tasks,     \* rows of the planning_tasks table
    earlier,            \* an earlier invocation of generateN8NWorkflow: its plan and its graph
    response,           \* analyzeWorkflowRequest: the completion's content blocks
    analysisText,       \* analyzeWorkflowRequest: const analysisText
    jsonMatch,          \* analyzeWorkflowRequest: const jsonMatch
    analysis,           \* the value analyzeWorkflowRequest returned
    error,              \* the exception thrown, which chat2Workflow catches and throws again
    log,                \* the requests sent to the completion API and to the database, in order
    mcp,                \* unnamed/part_002: one request to POST /mcp/tools/call and what it caused
    toolsServer,        \* unnamed/part_000: one request to POST /mcp/tools/call and what it caused
    memory,             \* services/memory-injector.ts: one chatWithMemory call and its session
    agent               \* unnamed/part_001: main, its message history and its requests

vars == <<pc, plan, nodes, connections, yOffset, index, n8nWorkflow,
          workflow_registry, tasks, planning_tasks, earlier,
          response, analysisText, jsonMatch, analysis, error, log,
          mcp, toolsServer, memory, agent>>

analyzerVars == <<response, analysisText, jsonMatch, analysis>>

\* The programs of the repository other than the workflow compiler.
otherPrograms == <<mcp, toolsServer, memory, agent>>

(***************************************************************************)
(* Bounds of the model.                                                    *)
(***************************************************************************)
MaxSteps == 2
MaxTriggers == 2

(***************************************************************************)
(* Strings, as sequences of characters.                                    *)
(***************************************************************************)
s_email == <<"e", "m", "a", "i", "l">>
s_schedule == <<"s", "c", "h", "e", "d", "u", "l", "e">>
s_webhook == <<"w", "e", "b", "h", "o", "o", "k">>
s_slack == <<"s", "l", "a", "c", "k">>
s_github == <<"g", "i", "t", "h", "u", "b">>
s_manual == <<"m", "a", "n", "u", "a", "l">>
s_http == <<"h", "t", "t", "p">>
s_ai == <<"a", "i">>
s_database == <<"d", "a", "t", "a", "b", "a", "s", "e">>
s_conditional == <<"c", "o", "n", "d", "i", "t", "i", "o", "n", "a", "l">>
s_code == <<"c", "o", "d", "e">>
s_scheduled == <<"s", "c", "h", "e", "d", "u", "l", "e", "d">>
s_event == <<"e", "v", "e", "n", "t">>
s_chat == <<"c", "h", "a", "t">>
s_constructor == <<"c", "o", "n", "s", "t", "r", "u", "c", "t", "o", "r">>
s_toString == <<"t", "o", "S", "t", "r", "i", "n", "g">>
s_valueOf == <<"v", "a", "l", "u", "e", "O", "f">>
s_hasOwnProperty == <<"h", "a", "s", "O", "w", "n", "P", "r", "o", "p", "e", "r", "t", "y">>
s_proto == <<"_", "_", "p", "r", "o", "t", "o", "_", "_">>
s_cron == <<"c", "r", "o", "n">>
s_ftp == <<"f", "t", "p">>
s_Webhook == <<"W", "e", "b", "h", "o", "o", "k">>

UpperCase == <<"A", "B", "C", "D", "E", "F", "G", "H", "I", "J", "K", "L", "M",
               "N", "O", "P", "Q", "R", "S", "T", "U", "V", "W", "X", "Y", "Z">>
LowerCase == <<"a", "b", "c", "d", "e", "f", "g", "h", "i", "j", "k", "l", "m",
               "n", "o", "p", "q", "r", "s", "t", "u", "v", "w", "x", "y", "z">>

\* String.prototype.toLowerCase, character by character.
toLowerCase(s) ==
    [i \in 1..Len(s) |->
        IF \E k \in 1..Len(UpperCase) : UpperCase[k] = s[i]
        THEN LowerCase[CHOOSE k \in 1..Len(UpperCase) : UpperCase[k] = s[i]]
        ELSE s[i]]

(***************************************************************************)
(* JavaScript values that are not always strings.                          *)
(***************************************************************************)
Str(s) == [t |-> "string", v |-> s]
Null == [t |-> "null"]
Undefined == [t |-> "undefined"]
Inherited(key) == [t |-> "inherited", v |-> key]

IsString(x) == x.t = "string"

\* The truthiness that || tests.
Truthy(x) ==
    CASE x.t = "undefined" -> FALSE
      [] x.t = "null" -> FALSE
      [] x.t = "string" -> Len(x.v) > 0
      [] OTHER -> TRUE

\* Members every object literal inherits from Object.prototype (a selection).
ObjectPrototypeKeys ==
    {s_constructor, s_toString, s_valueOf, s_hasOwnProperty, s_proto}

\* obj[key] on an object literal: an own property, else an inherited member,
\* else undefined.
PropertyGet(obj, key) ==
    IF key \in DOMAIN obj THEN Str(obj[key])
    ELSE IF key \in ObjectPrototypeKeys THEN Inherited(key)
    ELSE Undefined

(***************************************************************************)
(* The lookup helpers.                                                     *)
(***************************************************************************)
triggerMap ==
    (s_email :> "n8n-nodes-base.emailTrigger") @@
    (s_schedule :> "n8n-nodes-base.scheduleTrigger") @@
    (s_webhook :> "n8n-nodes-base.webhookTrigger") @@
    (s_slack :> "n8n-nodes-slack.slackTrigger") @@
    (s_github :> "n8n-nodes-github.githubTrigger") @@
    (s_manual :> "n8n-nodes-base.manualTrigger")

DefaultTriggerNodeType == "n8n-nodes-base.webhookTrigger"

getTriggerNodeType(trigger) ==
    LET found == PropertyGet(triggerMap, trigger)
    IN  IF Truthy(found) THEN found ELSE Str(DefaultTriggerNodeType)

typeMap ==
    (s_http :> "n8n-nodes-base.httpRequest") @@
    (s_ai :> "n8n-nodes-openai.chatGPT") @@
    (s_database :> "n8n-nodes-postgres.postgres") @@
    (s_email :> "n8n-nodes-base.emailSend") @@
    (s_slack :> "n8n-nodes-slack.slack") @@
    (s_conditional :> "n8n-nodes-base.if") @@
    (s_code :> "n8n-nodes-base.code")

DefaultNodeType == "n8n-nodes-base.httpRequest"

getN8NNodeType(stepType) ==
    LET found == PropertyGet(typeMap, stepType)
    IN  IF Truthy(found) THEN found ELSE Str(DefaultNodeType)

EmptyObject == <<>>

\* buildTriggerConfig whose default case is the webhook configuration, as the
\* default of getTriggerNodeType is the webhook node type.
buildTriggerConfig_DefaultWebhook(trigger) ==
    CASE trigger = s_schedule -> [interval |-> <<1>>, unit |-> "hours"]
      [] OTHER -> [path |-> "workflow-trigger", responseMode |-> "onReceived"]

buildTriggerConfig(trigger) ==
    CASE trigger = s_schedule -> [interval |-> <<1>>, unit |-> "hours"]
      [] trigger = s_webhook -> [path |-> "workflow-trigger", responseMode |-> "onReceived"]
      [] OTHER -> EmptyObject

(***************************************************************************)
(* Layout constants of generateN8NWorkflow.                                *)
(***************************************************************************)
TriggerColumn == 0
StepColumn == 400
NodeSpacing == 150

(***************************************************************************)
(* The plans the model compiles.  A step's id is assigned by its place in  *)
(* the plan, so ids are unique within a plan; a trigger is a JSON value,   *)
(* a string in every well-formed plan and null in an ill-formed one.       *)
(***************************************************************************)
StepKinds ==
    { [name |-> "Fetch",  type |-> s_http,        config |-> [url |-> "https://x"]],
      [name |-> "Branch", type |-> s_conditional, config |-> EmptyObject],
      [name |-> "Upload", type |-> s_ftp,         config |-> [host |-> "files"]],
      [name |-> "Build",  type |-> s_constructor, config |-> EmptyObject] }

TriggerValues ==
    { Str(s_schedule), Str(s_Webhook), Str(s_manual), Str(s_cron),
      Str(s_constructor), Null }

SeqsUpTo(S, n) == UNION { [1..k -> S] : k \in 0..n }

WorkflowStep(i, kind) ==
    [id |-> "step_" \o ToString(i), name |-> kind.name,
     type |-> kind.type, config |-> kind.config]

WorkflowPlan(triggers, kinds) ==
    [name |-> "Daily digest",
     description |-> "Summarise new issues every morning",
     triggers |-> triggers,
     steps |-> [i \in 1..Len(kinds) |-> WorkflowStep(i, kinds[i])],
     expectedOutputs |-> <<"digest">>]

\* The triggers after the first, which the code never reads, vary less.
LaterTriggerValues == { Str(s_webhook), Str(s_cron) }

TriggerSeqs ==
    { <<>> } \cup
    { <<first>> \o rest :
        first \in TriggerValues, rest \in SeqsUpTo(LaterTriggerValues, MaxTriggers - 1) }

Plans ==
    { WorkflowPlan(tr, ks) : tr \in TriggerSeqs, ks \in SeqsUpTo(StepKinds, MaxSteps) }

\* The plans of the repeated-invocation specification.
RepeatPlans ==
    { WorkflowPlan(tr, ks) :
        tr \in {<<>>, <<Str(s_schedule)>>, <<Str(s_cron)>>},
        ks \in SeqsUpTo({k \in StepKinds : k.type \in {s_http, s_conditional}}, MaxSteps) }

\* A plan as the WorkflowPlan interface declares it: triggers is a string[].
WellFormed(p) == \A i \in 1..Len(p.triggers) : IsString(p.triggers[i])

\* Not assigned yet.
NoPlan == Undefined
NoGraph == Undefined
NoCall == Undefined
NoError == Undefined

\* A request as the log keeps it.
InsertRequest(table, row) == [op |-> "insert", table |-> table, row |-> row]
CompletionRequest == [op |-> "messages.create"]

\* The exceptions of the compiler.
ExtractionError ==
    [name |-> "Error", message |-> "Could not extract workflow plan from Claude response"]
SyntaxError == [name |-> "SyntaxError", message |-> "JSON.parse: unexpected token"]
\* "Cannot read properties of undefined (reading '<property>')", or of null.
TypeError(property) == [name |-> "TypeError", reading |-> property]
UpstreamError == [name |-> "APIError", message |-> "messages.create failed"]

\* None of the other programs has been started.
OthersNotStarted ==
    /\ mcp = Undefined
    /\ toolsServer = Undefined
    /\ memory = Undefined
    /\ agent = Undefined

Init ==
    /\ pc = "analyze"
    /\ plan = NoPlan
    /\ nodes = <<>>
    /\ connections = <<>>
    /\ yOffset = 0
    /\ index = 0
    /\ n8nWorkflow = NoGraph
    /\ workflow_registry = <<>>
    /\ tasks = <<>>
    /\ planning_tasks = <<>>
    /\ earlier = NoCall
    /\ response = Undefined
    /\ analysisText = Undefined
    /\ jsonMatch = Undefined
    /\ analysis = Undefined
    /\ error = NoError
    /\ log = <<>>
    /\ OthersNotStarted

(***************************************************************************)
(* The completion's text.  A text is a sequence of pieces: a brace, a run   *)
(* of prose without braces, the members of the analysis object without its *)
(* nested plan, or the members of the plan object.                          *)
(***************************************************************************)
LBrace == [c |-> "{"]
RBrace == [c |-> "}"]
Prose == [c |-> "Sure, here you go:"]
Members(m) == [members |-> m]
PlanMembers(p) == [plan |-> p]

Array(a) == [t |-> "array", v |-> a]

\* The text of a JSON object with the members m and, nested in it, the plan p.
ObjectText(m, p) ==
    IF p = Undefined
    THEN <<LBrace, Members(m), RBrace>>
    ELSE <<LBrace, Members(m), LBrace, PlanMembers(p), RBrace, RBrace>>

\* The members beside "plan": as the prompt asks for them, and with one of them
\* wrong or missing.
MemberVariants ==
    LET full == [intent |-> Str("digest"), requiredServices |-> Array(<<"github", "slack">>),
                 complexity |-> Str("simple")]
    IN  { full,
          [full EXCEPT !.complexity = Str("medium")],
          [full EXCEPT !.complexity = Undefined],
          [full EXCEPT !.requiredServices = Undefined],
          [full EXCEPT !.intent = Undefined] }

FullMembers ==
    [intent |-> Str("digest"), requiredServices |-> Array(<<"github", "slack">>),
     complexity |-> Str("simple")]

\* The plans of the texts whose shape varies.
SamplePlans ==
    { WorkflowPlan(<<Str(s_manual)>>, <<CHOOSE k \in StepKinds : k.type = s_http>>) }

TextBlock(text) == [type |-> "text", text |-> text]
ToolUseBlock == [type |-> "tool_use"]

\* The texts: something before, an object or an attempt at one, something after.
Texts ==
    { before \o middle \o after :
        before \in { <<>>, <<Prose>>, <<LBrace>>, <<RBrace>> },
        middle \in { <<>>, <<LBrace, RBrace>>, <<LBrace, Prose, RBrace>> } \cup
                   { ObjectText(m, p) : m \in MemberVariants, p \in SamplePlans \cup {Undefined} },
        after \in { <<>>, <<Prose>>, <<RBrace>>, <<LBrace>>, <<Prose, LBrace, RBrace>> } }

\* The responses of the completion API: every plan in prose, every text as the
\* only block, and the other arrangements of blocks.
Responses ==
    { <<TextBlock(<<Prose>> \o ObjectText(FullMembers, p) \o <<Prose>>)>> : p \in Plans } \cup
    { <<TextBlock(t)>> : t \in Texts } \cup
    { <<ToolUseBlock, TextBlock(ObjectText(FullMembers, p))>> : p \in SamplePlans } \cup
    { <<TextBlock(ObjectText(FullMembers, p)), TextBlock(<<Prose>>)>> : p \in SamplePlans } \cup
    { <<TextBlock(<<Prose>>), TextBlock(ObjectText(FullMembers, p))>> : p \in SamplePlans } \cup
    { <<>> }

(***************************************************************************)
(* analyzeWorkflowRequest.                                                 *)
(***************************************************************************)
\* analysisText.match(/\{[\s\S]*\}/): the leftmost place where a match starts,
\* and from there the longest match.
Match(v) == [t |-> "match", v |-> v]

\* The same with a lazy quantifier, /\{[\s\S]*?\}/: the shortest match.
RegexMatch_Lazy(text) ==
    LET starts == { i \in 1..Len(text) :
                      text[i] = LBrace /\ \E j \in (i + 1)..Len(text) : text[j] = RBrace }
    IN  IF starts = {} THEN Null
        ELSE LET i == CHOOSE a \in starts : \A b \in starts : a <= b
                 ends == { j \in (i + 1)..Len(text) : text[j] = RBrace }
                 j == CHOOSE a \in ends : \A b \in ends : a <= b
             IN  Match(SubSeq(text, i, j))

\* The same matching the empty string where there is no object, /\{[\s\S]*\}|/.
RegexMatch_NeverNull(text) ==
    LET starts == { i \in 1..Len(text) :
                      text[i] = LBrace /\ \E j \in (i + 1)..Len(text) : text[j] = RBrace }
    IN  IF starts = {} THEN Match(<<>>)
        ELSE LET i == CHOOSE a \in starts : \A b \in starts : a <= b
                 ends == { j \in (i + 1)..Len(text) : text[j] = RBrace }
                 j == CHOOSE a \in ends : \A b \in ends : a >= b
             IN  Match(SubSeq(text, i, j))

\* The same anchored at the start of the text, /^\{[\s\S]*\}/.
RegexMatch_Anchored(text) ==
    LET ends == { j \in 2..Len(text) : text[j] = RBrace }
    IN  IF Len(text) = 0 \/ text[1] # LBrace \/ ends = {} THEN Null
        ELSE Match(SubSeq(text, 1, CHOOSE a \in ends : \A b \in ends : a >= b))

RegexMatch(text) ==
    LET starts == { i \in 1..Len(text) :
                      text[i] = LBrace /\ \E j \in (i + 1)..Len(text) : text[j] = RBrace }
    IN  IF starts = {} THEN Null
        ELSE LET i == CHOOSE a \in starts : \A b \in starts : a <= b
                 ends == { j \in (i + 1)..Len(text) : text[j] = RBrace }
                 j == CHOOSE a \in ends : \A b \in ends : a >= b
             IN  Match(SubSeq(text, i, j))

IsMembers(piece) == DOMAIN piece = {"members"}
IsPlanMembers(piece) == DOMAIN piece = {"plan"}

Object(intent, requiredServices, complexity, p) ==
    [t |-> "object",
     v |-> [intent |-> intent, requiredServices |-> requiredServices,
            complexity |-> complexity, plan |-> p]]

\* JSON.parse taking braces around prose for an empty object.
JSONparse_Lenient(text) ==
    CASE text = <<LBrace, RBrace>> ->
             Object(Undefined, Undefined, Undefined, Undefined)
      [] Len(text) = 3 /\ text[1] = LBrace /\ text[3] = RBrace ->
             IF IsMembers(text[2])
             THEN Object(text[2].members.intent, text[2].members.requiredServices,
                         text[2].members.complexity, Undefined)
             ELSE Object(Undefined, Undefined, Undefined, Undefined)
      [] /\ Len(text) = 6
         /\ text[1] = LBrace /\ IsMembers(text[2])
         /\ text[3] = LBrace /\ IsPlanMembers(text[4]) /\ text[5] = RBrace
         /\ text[6] = RBrace ->
             Object(text[2].members.intent, text[2].members.requiredServices,
                    text[2].members.complexity, text[4].plan)
      [] OTHER -> SyntaxError

\* JSON.parse: the object a text denotes, or a SyntaxError.
JSONparse(text) ==
    CASE text = <<LBrace, RBrace>> ->
             Object(Undefined, Undefined, Undefined, Undefined)
      [] Len(text) = 3 /\ text[1] = LBrace /\ IsMembers(text[2]) /\ text[3] = RBrace ->
             Object(text[2].members.intent, text[2].members.requiredServices,
                    text[2].members.complexity, Undefined)
      [] /\ Len(text) = 6
         /\ text[1] = LBrace /\ IsMembers(text[2])
         /\ text[3] = LBrace /\ IsPlanMembers(text[4]) /\ text[5] = RBrace
         /\ text[6] = RBrace ->
             Object(text[2].members.intent, text[2].members.requiredServices,
                    text[2].members.complexity, text[4].plan)
      [] OTHER -> SyntaxError

\* await anthropic.messages.create: one request, answered or failed.
CreateMessage ==
    /\ pc = "analyze"
    /\ log' = Append(log, CompletionRequest)
    /\ \/ /\ \E r \in Responses : response' = r
          /\ pc' = "respond"
          /\ UNCHANGED error
       \/ /\ error' = UpstreamError
          /\ pc' = "threw"
          /\ UNCHANGED response
    /\ UNCHANGED <<plan, nodes, connections, yOffset, index, n8nWorkflow,
                   workflow_registry, tasks, planning_tasks, earlier,
                   analysisText, jsonMatch, analysis>>
    /\ UNCHANGED otherPrograms

\* From the response to the return: the text of content[0], the match, the
\* parse, and the four members of the result.
ExtractPlan ==
    /\ pc = "respond"
    /\ IF Len(response) = 0
       THEN /\ error' = TypeError("type")
            /\ pc' = "threw"
            /\ UNCHANGED <<analysisText, jsonMatch, analysis, plan>>
       ELSE LET text == IF response[1].type = "text" THEN response[1].text ELSE <<>>
                found == RegexMatch(text)
            IN  /\ analysisText' = Str(text)
                /\ jsonMatch' = found
                /\ IF found = Null
                   THEN /\ error' = ExtractionError
                        /\ pc' = "threw"
                        /\ UNCHANGED <<analysis, plan>>
                   ELSE LET parsed == JSONparse(found.v)
                        IN  IF parsed = SyntaxError
                            THEN /\ error' = SyntaxError
                                 /\ pc' = "threw"
                                 /\ UNCHANGED <<analysis, plan>>
                            ELSE /\ analysis' = parsed.v
                                 /\ plan' = parsed.v.plan
                                 /\ pc' = "analyzed"
                                 /\ UNCHANGED error
    /\ UNCHANGED <<nodes, connections, yOffset, index, n8nWorkflow,
                   workflow_registry, tasks, planning_tasks, earlier, response, log>>
    /\ UNCHANGED otherPrograms

\* chat2Workflow prints the analysis: requiredServices.join throws a TypeError
\* when the member is missing.
PrintAnalysis ==
    /\ pc = "analyzed"
    /\ IF analysis.requiredServices = Undefined
       THEN /\ error' = TypeError("join")
            /\ pc' = "threw"
       ELSE /\ pc' = "generate"
            /\ UNCHANGED error
    /\ UNCHANGED <<plan, nodes, connections, yOffset, index, n8nWorkflow,
                   workflow_registry, tasks, planning_tasks, earlier,
                   analyzerVars, log>>
    /\ UNCHANGED otherPrograms

(***************************************************************************)
(* generateN8NWorkflow, statement by statement.                            *)
(***************************************************************************)
\* GenEnter with yOffset kept from the previous invocation, as a module-level
\* variable would be.
GenEnter_StaleOffset ==
    /\ pc = "generate"
    /\ nodes' = <<>>
    /\ connections' = <<>>
    /\ index' = 0
    /\ pc' = "trigger"
    /\ UNCHANGED <<yOffset, plan, n8nWorkflow, workflow_registry, tasks,
                   planning_tasks, earlier,
                   analyzerVars, error, log>>
    /\ UNCHANGED otherPrograms

\* Entry: the locals are created afresh.
GenEnter ==
    /\ pc = "generate"
    /\ nodes' = <<>>
    /\ connections' = <<>>
    /\ yOffset' = 0
    /\ index' = 0
    /\ pc' = "trigger"
    /\ UNCHANGED <<plan, n8nWorkflow, workflow_registry, tasks, planning_tasks, earlier,
                   analyzerVars, error, log>>
    /\ UNCHANGED otherPrograms

\* GenTriggerNode without the test of plan.triggers.length: triggers[0] is
\* undefined on an empty triggers array and toLowerCase throws.
GenTriggerNode_NoLengthTest ==
    /\ pc = "trigger"
    /\ IF plan # Undefined /\ Len(plan.triggers) > 0 /\ IsString(plan.triggers[1])
       THEN LET triggerType == toLowerCase(plan.triggers[1].v)
            IN  /\ nodes' = Append(nodes,
                       [id |-> "trigger",
                        type |-> getTriggerNodeType(triggerType),
                        position |-> <<TriggerColumn, yOffset>>,
                        parameters |-> buildTriggerConfig(triggerType)])
                /\ yOffset' = yOffset + NodeSpacing
                /\ pc' = "steps"
                /\ UNCHANGED error
       ELSE /\ pc' = "threw"
            /\ error' = TypeError("toLowerCase")
            /\ UNCHANGED <<nodes, yOffset>>
    /\ UNCHANGED <<plan, connections, index, n8nWorkflow, workflow_registry,
                   tasks, planning_tasks, earlier,
                   analyzerVars, log>>
    /\ UNCHANGED otherPrograms

\* The trigger node.  Reading plan.triggers of an undefined plan throws a
\* TypeError, and so does toLowerCase on a trigger that is no string.
GenTriggerNode ==
    /\ pc = "trigger"
    /\ IF plan = Undefined
       THEN /\ pc' = "threw"
            /\ error' = TypeError("triggers")
            /\ UNCHANGED <<nodes, yOffset>>
       ELSE IF Len(plan.triggers) > 0
       THEN IF IsString(plan.triggers[1])
            THEN LET triggerType == toLowerCase(plan.triggers[1].v)
                 IN  /\ nodes' = Append(nodes,
                            [id |-> "trigger",
                             type |-> getTriggerNodeType(triggerType),
                             position |-> <<TriggerColumn, yOffset>>,
                             parameters |-> buildTriggerConfig(triggerType)])
                     /\ yOffset' = yOffset + NodeSpacing
                     /\ pc' = "steps"
                     /\ UNCHANGED error
            ELSE /\ pc' = "threw"
                 /\ error' = TypeError("toLowerCase")
                 /\ UNCHANGED <<nodes, yOffset>>
       ELSE /\ pc' = "steps"
            /\ UNCHANGED <<nodes, yOffset, error>>
    /\ UNCHANGED <<plan, connections, index, n8nWorkflow, workflow_registry,
                   tasks, planning_tasks, earlier,
                   analyzerVars, log>>
    /\ UNCHANGED otherPrograms

NodeId(i) == "node_" \o ToString(i)

Connection(nodeId) == <<[node |-> nodeId, type |-> "main", index |-> 0]>>

\* GenStepNode without the else-branch that chains a step to the step before it.
GenStepNode_NoChain ==
    /\ pc = "steps"
    /\ index < Len(plan.steps)
    /\ LET step == plan.steps[index + 1]
           nodeId == NodeId(index)
           node == [id |-> nodeId,
                    type |-> getN8NNodeType(step.type),
                    position |-> <<StepColumn, yOffset>>,
                    parameters |-> step.config]
       IN  /\ nodes' = Append(nodes, node)
           /\ connections' =
                  IF index = 0 /\ Len(plan.triggers) > 0
                  THEN ("trigger" :> Connection(nodeId)) @@ connections
                  ELSE connections
    /\ yOffset' = yOffset + NodeSpacing
    /\ index' = index + 1
    /\ UNCHANGED <<pc, plan, n8nWorkflow, workflow_registry, tasks, planning_tasks, earlier,
                   analyzerVars, error, log>>
    /\ UNCHANGED otherPrograms

\* GenStepNode connecting step 0 to "trigger" without testing plan.triggers.length.
GenStepNode_TriggerEdgeAlways ==
    /\ pc = "steps"
    /\ index < Len(plan.steps)
    /\ LET step == plan.steps[index + 1]
           nodeId == NodeId(index)
           node == [id |-> nodeId,
                    type |-> getN8NNodeType(step.type),
                    position |-> <<StepColumn, yOffset>>,
                    parameters |-> step.config]
       IN  /\ nodes' = Append(nodes, node)
           /\ connections' =
                  IF index = 0
                  THEN ("trigger" :> Connection(nodeId)) @@ connections
                  ELSE (NodeId(index - 1) :> Connection(nodeId)) @@ connections
    /\ yOffset' = yOffset + NodeSpacing
    /\ index' = index + 1
    /\ UNCHANGED <<pc, plan, n8nWorkflow, workflow_registry, tasks, planning_tasks, earlier,
                   analyzerVars, error, log>>
    /\ UNCHANGED otherPrograms

\* GenStepNode giving a conditional step two outgoing connections, one per branch.
GenStepNode_Branching ==
    /\ pc = "steps"
    /\ index < Len(plan.steps)
    /\ LET step == plan.steps[index + 1]
           nodeId == NodeId(index)
           node == [id |-> nodeId,
                    type |-> getN8NNodeType(step.type),
                    position |-> <<StepColumn, yOffset>>,
                    parameters |-> step.config]
       IN  /\ nodes' = Append(nodes, node)
           /\ connections' =
                  IF index = 0 /\ Len(plan.triggers) > 0
                  THEN ("trigger" :> Connection(nodeId)) @@ connections
                  ELSE IF index > 0
                  THEN (NodeId(index - 1) :>
                          IF plan.steps[index].type = s_conditional
                          THEN Connection(nodeId) \o Connection(nodeId)
                          ELSE Connection(nodeId)) @@ connections
                  ELSE connections
    /\ yOffset' = yOffset + NodeSpacing
    /\ index' = index + 1
    /\ UNCHANGED <<pc, plan, n8nWorkflow, workflow_registry, tasks, planning_tasks, earlier,
                   analyzerVars, error, log>>
    /\ UNCHANGED otherPrograms

\* GenStepNode with nodes.unshift in place of nodes.push.
GenStepNode_Unshift ==
    /\ pc = "steps"
    /\ index < Len(plan.steps)
    /\ LET step == plan.steps[index + 1]
           nodeId == NodeId(index)
           node == [id |-> nodeId,
                    type |-> getN8NNodeType(step.type),
                    position |-> <<StepColumn, yOffset>>,
                    parameters |-> step.config]
       IN  /\ nodes' = <<node>> \o nodes
           /\ connections' =
                  IF index = 0 /\ Len(plan.triggers) > 0
                  THEN ("trigger" :> Connection(nodeId)) @@ connections
                  ELSE IF index > 0
                  THEN (NodeId(index - 1) :> Connection(nodeId)) @@ connections
                  ELSE connections
    /\ yOffset' = yOffset + NodeSpacing
    /\ index' = index + 1
    /\ UNCHANGED <<pc, plan, n8nWorkflow, workflow_registry, tasks, planning_tasks, earlier,
                   analyzerVars, error, log>>
    /\ UNCHANGED otherPrograms

\* GenStepNode copying the step's name into the node's parameters.
GenStepNode_AddsKey ==
    /\ pc = "steps"
    /\ index < Len(plan.steps)
    /\ LET step == plan.steps[index + 1]
           nodeId == NodeId(index)
       IN  /\ nodes' = Append(nodes,
                  [id |-> nodeId,
                   type |-> getN8NNodeType(step.type),
                   position |-> <<StepColumn, yOffset>>,
                   parameters |-> ("name" :> step.name) @@ step.config])
           /\ connections' =
                  IF index = 0 /\ Len(plan.triggers) > 0
                  THEN ("trigger" :> Connection(nodeId)) @@ connections
                  ELSE IF index > 0
                  THEN (NodeId(index - 1) :> Connection(nodeId)) @@ connections
                  ELSE connections
    /\ yOffset' = yOffset + NodeSpacing
    /\ index' = index + 1
    /\ UNCHANGED <<pc, plan, n8nWorkflow, workflow_registry, tasks, planning_tasks, earlier,
                   analyzerVars, error, log>>
    /\ UNCHANGED otherPrograms

\* One iteration of plan.steps.forEach.
\* GenStepNode placing a step by its index, not by the running offset.
GenStepNode_IndexOffset ==
    /\ pc = "steps"
    /\ index < Len(plan.steps)
    /\ LET step == plan.steps[index + 1]
           nodeId == NodeId(index)
       IN  /\ nodes' = Append(nodes,
                  [id |-> nodeId,
                   type |-> getN8NNodeType(step.type),
                   position |-> <<StepColumn, index * NodeSpacing>>,
                   parameters |-> step.config])
           /\ connections' =
                  IF index = 0 /\ Len(plan.triggers) > 0
                  THEN ("trigger" :> Connection(nodeId)) @@ connections
                  ELSE IF index > 0
                  THEN (NodeId(index - 1) :> Connection(nodeId)) @@ connections
                  ELSE connections
    /\ yOffset' = yOffset + NodeSpacing
    /\ index' = index + 1
    /\ UNCHANGED <<pc, plan, n8nWorkflow, workflow_registry, tasks, planning_tasks, earlier,
                   analyzerVars, error, log>>
    /\ UNCHANGED otherPrograms

GenStepNode ==
    /\ pc = "steps"
    /\ index < Len(plan.steps)
    /\ LET step == plan.steps[index + 1]
           nodeId == NodeId(index)
       IN  /\ nodes' = Append(nodes,
                  [id |-> nodeId,
                   type |-> getN8NNodeType(step.type),
                   position |-> <<StepColumn, yOffset>>,
                   parameters |-> step.config])
           /\ connections' =
                  IF index = 0 /\ Len(plan.triggers) > 0
                  THEN ("trigger" :> Connection(nodeId)) @@ connections
                  ELSE IF index > 0
                  THEN (NodeId(index - 1) :> Connection(nodeId)) @@ connections
                  ELSE connections
    /\ yOffset' = yOffset + NodeSpacing
    /\ index' = index + 1
    /\ UNCHANGED <<pc, plan, n8nWorkflow, workflow_registry, tasks, planning_tasks, earlier,
                   analyzerVars, error, log>>
    /\ UNCHANGED otherPrograms

\* The return statement.
GenReturn ==
    /\ pc = "steps"
    /\ index = Len(plan.steps)
    /\ n8nWorkflow' = [name |-> plan.name, active |-> FALSE, nodes |-> nodes,
                       connections |-> connections]
    /\ pc' = "generated"
    /\ UNCHANGED <<plan, nodes, connections, yOffset, index, workflow_registry,
                   tasks, planning_tasks, earlier,
                   analyzerVars, error, log>>
    /\ UNCHANGED otherPrograms

(***************************************************************************)
(* The two tables of database/schema.sql that the compiler inserts into.   *)
(***************************************************************************)
\* CHECK (trigger_type IN ('manual', 'scheduled', 'webhook', 'event', 'chat'))
AllowedTriggerTypes == {s_manual, s_scheduled, s_webhook, s_event, s_chat}

\* CHECK (status IN ('draft', 'active', 'testing', 'paused'))
AllowedWorkflowStatus == {"draft", "active", "testing", "paused"}

\* The constraints of workflow_registry on a new row.
RegistryAccepts(row) ==
    /\ \A i \in 1..Len(workflow_registry) :
           workflow_registry[i].workflow_name # row.workflow_name
    /\ row.trigger_type.v \in AllowedTriggerTypes
    /\ row.status \in AllowedWorkflowStatus

(***************************************************************************)
(* saveWorkflowPlan: one insert, whose outcome the code does not read.     *)
(***************************************************************************)
\* WorkflowRecord storing the workflow as active.
WorkflowRecord_Active(p, graph) ==
    [workflow_name |-> p.name,
     description |-> p.description,
     trigger_type |-> IF Len(p.triggers) > 0 /\ Truthy(p.triggers[1])
                      THEN p.triggers[1] ELSE Str(s_manual),
     status |-> "active",
     config |-> graph,
     related_tasks |-> <<>>]

WorkflowRecord(p, graph) ==
    [workflow_name |-> p.name,
     description |-> p.description,
     trigger_type |-> IF Len(p.triggers) > 0 /\ Truthy(p.triggers[1])
                      THEN p.triggers[1] ELSE Str(s_manual),
     status |-> "draft",
     config |-> graph,
     related_tasks |-> <<>>]

saveWorkflowPlan ==
    /\ pc = "generated"
    /\ \E delivered \in BOOLEAN :
           workflow_registry' =
               IF delivered /\ RegistryAccepts(WorkflowRecord(plan, n8nWorkflow))
               THEN Append(workflow_registry, WorkflowRecord(plan, n8nWorkflow))
               ELSE workflow_registry
    /\ log' = Append(log, InsertRequest("workflow_registry", WorkflowRecord(plan, n8nWorkflow)))
    /\ pc' = "saved"
    /\ UNCHANGED <<plan, nodes, connections, yOffset, index, n8nWorkflow,
                   tasks, planning_tasks, earlier,
                   analyzerVars, error>>
    /\ UNCHANGED otherPrograms

(***************************************************************************)
(* createPlanningTasks: the task list, then one insert per task.           *)
(***************************************************************************)
ReviewTask(p) ==
    [title |-> "Review workflow: " \o p.name,
     description |-> p.description,
     category |-> "workflow",
     status |-> "in_progress",
     priority |-> 7,
     metadata |-> [workflow_plan |-> p]]

StepTask(step) ==
    [title |-> "Configure: " \o step.name,
     description |-> <<"Set up ", step.type, " node for workflow">>,
     category |-> "workflow",
     status |-> "backlog",
     priority |-> 5,
     metadata |-> [step_id |-> step.id]]

\* PlanningTasks with the review task after the step tasks.
PlanningTasks_ReviewLast(p) ==
    [i \in 1..Len(p.steps) |-> StepTask(p.steps[i])] \o <<ReviewTask(p)>>

PlanningTasks(p) ==
    <<ReviewTask(p)>> \o [i \in 1..Len(p.steps) |-> StepTask(p.steps[i])]

\* createPlanningTasks started as soon as the graph is returned, before
\* saveWorkflowPlan.
createPlanningTasks_BeforeSave ==
    /\ pc = "generated"
    /\ tasks' = PlanningTasks(plan)
    /\ pc' = "tasks"
    /\ UNCHANGED <<plan, nodes, connections, yOffset, index, n8nWorkflow,
                   workflow_registry, planning_tasks, earlier,
                   analyzerVars, error, log>>
    /\ UNCHANGED otherPrograms

createPlanningTasks ==
    /\ pc = "saved"
    /\ tasks' = PlanningTasks(plan)
    /\ pc' = "tasks"
    /\ UNCHANGED <<plan, nodes, connections, yOffset, index, n8nWorkflow,
                   workflow_registry, planning_tasks, earlier,
                   analyzerVars, error, log>>
    /\ UNCHANGED otherPrograms

InsertTask ==
    /\ pc = "tasks"
    /\ tasks # <<>>
    /\ \E delivered \in BOOLEAN :
           planning_tasks' =
               IF delivered THEN Append(planning_tasks, Head(tasks)) ELSE planning_tasks
    /\ log' = Append(log, InsertRequest("planning_tasks", Head(tasks)))
    /\ tasks' = Tail(tasks)
    /\ UNCHANGED <<pc, plan, nodes, connections, yOffset, index, n8nWorkflow,
                   workflow_registry, earlier,
                   analyzerVars, error>>
    /\ UNCHANGED otherPrograms

\* chat2Workflow, step 5: the summary is printed and the call resolves.
Summary ==
    /\ pc = "tasks"
    /\ tasks = <<>>
    /\ pc' = "done"
    /\ UNCHANGED <<plan, nodes, connections, yOffset, index, n8nWorkflow,
                   workflow_registry, tasks, planning_tasks, earlier,
                   analyzerVars, error, log>>
    /\ UNCHANGED otherPrograms

\* A catch that logs the error and lets the call resolve.
Catch_Swallow ==
    /\ pc = "threw"
    /\ pc' = "done"
    /\ UNCHANGED <<plan, nodes, connections, yOffset, index, n8nWorkflow,
                   workflow_registry, tasks, planning_tasks, earlier,
                   analyzerVars, error, log>>
    /\ UNCHANGED otherPrograms

\* A catch that starts the compilation over, once.
Catch_Retry ==
    /\ pc = "threw"
    /\ pc' = IF Len(log) < 2 THEN "analyze" ELSE "rejected"
    /\ UNCHANGED <<plan, nodes, connections, yOffset, index, n8nWorkflow,
                   workflow_registry, tasks, planning_tasks, earlier,
                   analyzerVars, error, log>>
    /\ UNCHANGED otherPrograms

\* chat2Workflow's catch: the error is logged and thrown again.
Catch ==
    /\ pc = "threw"
    /\ pc' = "rejected"
    /\ UNCHANGED <<plan, nodes, connections, yOffset, index, n8nWorkflow,
                   workflow_registry, tasks, planning_tasks, earlier,
                   analyzerVars, error, log>>
    /\ UNCHANGED otherPrograms

Next ==
    \/ CreateMessage
    \/ ExtractPlan
    \/ PrintAnalysis
    \/ GenEnter
    \/ GenTriggerNode
    \/ GenStepNode
    \/ GenReturn
    \/ saveWorkflowPlan
    \/ createPlanningTasks
    \/ InsertTask
    \/ Summary
    \/ Catch

Spec == Init /\ [][Next]_vars

(***************************************************************************)
(* generateN8NWorkflow invoked again and again, on plans of RepeatPlans.   *)
(* One earlier invocation, any of them, is kept to compare with.           *)
(***************************************************************************)
InitRepeat ==
    /\ pc = "generate"
    /\ plan \in RepeatPlans
    /\ nodes = <<>>
    /\ connections = <<>>
    /\ yOffset = 0
    /\ index = 0
    /\ n8nWorkflow = NoGraph
    /\ workflow_registry = <<>>
    /\ tasks = <<>>
    /\ planning_tasks = <<>>
    /\ earlier = NoCall
    /\ response = Undefined
    /\ analysisText = Undefined
    /\ jsonMatch = Undefined
    /\ analysis = Undefined
    /\ error = NoError
    /\ log = <<>>
    /\ OthersNotStarted

InvokeAgain(p) ==
    /\ pc = "generated"
    /\ \E keep \in BOOLEAN :
           earlier' = IF keep THEN [plan |-> plan, graph |-> n8nWorkflow] ELSE earlier
    /\ plan' = p
    /\ n8nWorkflow' = NoGraph
    /\ pc' = "generate"
    /\ UNCHANGED <<nodes, connections, yOffset, index, workflow_registry,
                   tasks, planning_tasks,
                   analyzerVars, error, log>>
    /\ UNCHANGED otherPrograms

NextRepeat ==
    \/ GenEnter
    \/ GenTriggerNode
    \/ GenStepNode
    \/ GenReturn
    \/ pc = "generated" /\ \E p \in RepeatPlans : InvokeAgain(p)

SpecRepeat == InitRepeat /\ [][NextRepeat]_vars

(***************************************************************************)
(* Two chat2Workflow calls in flight at once.  A call is suspended only at *)
(* an await; what lies between two awaits runs to completion, and so       *)
(* generateN8NWorkflow, which awaits nothing, is one value.  pc, plan,     *)
(* n8nWorkflow, tasks, error and log are here those of each call; the two  *)
(* tables are the one store both calls write to.                           *)
(***************************************************************************)
Calls == {1, 2}

\* The plans the two calls may get from the completion API.
PairPlans ==
    { WorkflowPlan(<<>>, <<CHOOSE k \in StepKinds : k.type = s_http>>),
      WorkflowPlan(<<Str(s_schedule)>>,
                   <<CHOOSE k \in StepKinds : k.type = s_http,
                     CHOOSE k \in StepKinds : k.type = s_conditional>>),
      WorkflowPlan(<<Str(s_webhook)>>, <<>>) }

\* plan.steps.forEach of generateN8NWorkflow from index i on, on the locals l.
RECURSIVE forEachStep(_, _, _)
forEachStep(p, l, i) ==
    IF i = Len(p.steps) THEN l
    ELSE LET step == p.steps[i + 1]
             nodeId == NodeId(i)
         IN  forEachStep(p,
                 [nodes |-> Append(l.nodes,
                      [id |-> nodeId,
                       type |-> getN8NNodeType(step.type),
                       position |-> <<StepColumn, l.yOffset>>,
                       parameters |-> step.config]),
                  connections |->
                      IF i = 0 /\ Len(p.triggers) > 0
                      THEN ("trigger" :> Connection(nodeId)) @@ l.connections
                      ELSE IF i > 0
                      THEN (NodeId(i - 1) :> Connection(nodeId)) @@ l.connections
                      ELSE l.connections,
                  yOffset |-> l.yOffset + NodeSpacing],
                 i + 1)

\* generateN8NWorkflow as one value, for a plan whose triggers are strings.
generateN8NWorkflow(p) ==
    LET entry == [nodes |-> <<>>, connections |-> <<>>, yOffset |-> 0]
        triggerType == toLowerCase(p.triggers[1].v)
        triggered ==
            IF Len(p.triggers) > 0
            THEN [entry EXCEPT
                    !.nodes = Append(entry.nodes,
                        [id |-> "trigger",
                         type |-> getTriggerNodeType(triggerType),
                         position |-> <<TriggerColumn, entry.yOffset>>,
                         parameters |-> buildTriggerConfig(triggerType)]),
                    !.yOffset = entry.yOffset + NodeSpacing]
            ELSE entry
        l == forEachStep(p, triggered, 0)
    IN  [name |-> p.name, active |-> FALSE, nodes |-> l.nodes,
         connections |-> l.connections]

InitPair ==
    /\ pc = [c \in Calls |-> "analyze"]
    /\ plan = [c \in Calls |-> NoPlan]
    /\ n8nWorkflow = [c \in Calls |-> NoGraph]
    /\ tasks = [c \in Calls |-> <<>>]
    /\ error = [c \in Calls |-> NoError]
    /\ log = [c \in Calls |-> <<>>]
    /\ workflow_registry = <<>>
    /\ planning_tasks = <<>>
    /\ nodes = <<>>
    /\ connections = <<>>
    /\ yOffset = 0
    /\ index = 0
    /\ earlier = NoCall
    /\ response = Undefined
    /\ analysisText = Undefined
    /\ jsonMatch = Undefined
    /\ analysis = Undefined
    /\ OthersNotStarted

\* What no call of the pair touches: the locals live in each call.
pairUnused == <<nodes, connections, yOffset, index, earlier, analyzerVars, otherPrograms>>

\* Call c issues its completion request and is suspended.
PairCreateMessage(c) ==
    /\ pc[c] = "analyze"
    /\ log' = [log EXCEPT ![c] = Append(@, CompletionRequest)]
    /\ pc' = [pc EXCEPT ![c] = "respond"]
    /\ UNCHANGED <<plan, n8nWorkflow, tasks, error, workflow_registry,
                   planning_tasks, pairUnused>>

\* The completion request of call c fails: the catch throws the error again.
PairReject(c) ==
    /\ pc[c] = "respond"
    /\ error' = [error EXCEPT ![c] = UpstreamError]
    /\ pc' = [pc EXCEPT ![c] = "rejected"]
    /\ UNCHANGED <<plan, n8nWorkflow, tasks, log, workflow_registry,
                   planning_tasks, pairUnused>>

\* Call c resumes with its analysis, generates the graph and issues the insert
\* of saveWorkflowPlan, where it is suspended again.
PairGenerateAndSave(c) ==
    /\ pc[c] = "respond"
    /\ \E p \in PairPlans :
           LET graph == generateN8NWorkflow(p)
               row == WorkflowRecord(p, graph)
           IN  /\ plan' = [plan EXCEPT ![c] = p]
               /\ n8nWorkflow' = [n8nWorkflow EXCEPT ![c] = graph]
               /\ log' = [log EXCEPT ![c] = Append(@, InsertRequest("workflow_registry", row))]
               /\ \E delivered \in BOOLEAN :
                      workflow_registry' =
                          IF delivered /\ RegistryAccepts(row)
                          THEN Append(workflow_registry, row)
                          ELSE workflow_registry
    /\ pc' = [pc EXCEPT ![c] = "saved"]
    /\ UNCHANGED <<tasks, error, planning_tasks, pairUnused>>

\* PairCreateTasks reading the plan from a place the other call writes to too.
PairCreateTasks_SharedPlan(c) ==
    /\ pc[c] = "saved"
    /\ LET other == CHOOSE d \in Calls : d # c
           shared == IF plan[other] # NoPlan THEN plan[other] ELSE plan[c]
           list == PlanningTasks(shared)
       IN  /\ tasks' = [tasks EXCEPT ![c] = Tail(list)]
           /\ log' = [log EXCEPT ![c] = Append(@, InsertRequest("planning_tasks", Head(list)))]
           /\ \E delivered \in BOOLEAN :
                  planning_tasks' =
                      IF delivered THEN Append(planning_tasks, Head(list)) ELSE planning_tasks
    /\ pc' = [pc EXCEPT ![c] = "tasks"]
    /\ UNCHANGED <<plan, n8nWorkflow, error, workflow_registry, pairUnused>>

\* Call c resumes after the insert of the workflow, whatever its outcome, builds
\* the task list of its plan and issues the first insert of the loop.
PairCreateTasks(c) ==
    /\ pc[c] = "saved"
    /\ LET list == PlanningTasks(plan[c])
       IN  /\ tasks' = [tasks EXCEPT ![c] = Tail(list)]
           /\ log' = [log EXCEPT ![c] = Append(@, InsertRequest("planning_tasks", Head(list)))]
           /\ \E delivered \in BOOLEAN :
                  planning_tasks' =
                      IF delivered THEN Append(planning_tasks, Head(list)) ELSE planning_tasks
    /\ pc' = [pc EXCEPT ![c] = "tasks"]
    /\ UNCHANGED <<plan, n8nWorkflow, error, workflow_registry, pairUnused>>

\* Call c resumes in the loop and issues the insert of the next task.
PairInsertTask(c) ==
    /\ pc[c] = "tasks"
    /\ tasks[c] # <<>>
    /\ tasks' = [tasks EXCEPT ![c] = Tail(@)]
    /\ log' = [log EXCEPT ![c] = Append(@, InsertRequest("planning_tasks", Head(tasks[c])))]
    /\ \E delivered \in BOOLEAN :
           planning_tasks' =
               IF delivered THEN Append(planning_tasks, Head(tasks[c])) ELSE planning_tasks
    /\ UNCHANGED <<pc, plan, n8nWorkflow, error, workflow_registry, pairUnused>>

\* Call c resumes after its last insert, prints the summary and resolves.
PairSummary(c) ==
    /\ pc[c] = "tasks"
    /\ tasks[c] = <<>>
    /\ pc' = [pc EXCEPT ![c] = "done"]
    /\ UNCHANGED <<plan, n8nWorkflow, tasks, error, log, workflow_registry,
                   planning_tasks, pairUnused>>

NextPair ==
    \/ \E c \in Calls : PairCreateMessage(c)
    \/ \E c \in Calls : PairReject(c)
    \/ \E c \in Calls : PairGenerateAndSave(c)
    \/ \E c \in Calls : PairCreateTasks(c)
    \/ \E c \in Calls : PairInsertTask(c)
    \/ \E c \in Calls : PairSummary(c)

SpecPair == InitPair /\ [][NextPair]_vars

(***************************************************************************)
(* unnamed/part_002: the HTTP MCP server.  One request to                  *)
(* POST /mcp/tools/call, the handler it selects, the requests the handler  *)
(* sends to n8n, and the responses written.  Names and messages are TLA+   *)
(* strings inside the JavaScript values Str, Null, Undefined and JsObject. *)
(***************************************************************************)
JsObject(fields) == [t |-> "object", v |-> fields]

\* The names of MCP_TOOLS, in the order of the array.
MCP_TOOLS ==
    <<"conversation_search", "save_context", "trigger_workflow", "create_task",
      "get_agent_status">>

\* The tools README.md documents under "Verfügbare MCP-Tools".
ReadmeTools ==
    {"conversation_search", "save_context", "trigger_workflow", "create_task",
     "get_agent_status"}

\* The arguments of a call: nothing set, or everything set.
NoArguments ==
    [query |-> Undefined, conversation_id |-> Undefined, user_message |-> Undefined,
     assistant_response |-> Undefined, workflow_name |-> Undefined,
     platform |-> Undefined, title |-> Undefined]

AllArguments(workflow) ==
    [query |-> Str("budget"), conversation_id |-> Str("c1"), user_message |-> Str("hi"),
     assistant_response |-> Str("hello"), workflow_name |-> Str(workflow),
     platform |-> Str("github"), title |-> Str("Fix it")]

\* req.body of the requests: name and arguments present, falsy or absent.
HttpRequests ==
    { [name |-> n, arguments |-> a] :
        n \in {Undefined, Str("")} \cup { Str(MCP_TOOLS[i]) : i \in 1..Len(MCP_TOOLS) } \cup
              {Str("create_workflow_from_chat"), Str("constructor")},
        a \in {Undefined, Null, JsObject(NoArguments),
               JsObject(AllArguments("Daily digest")),
               JsObject(AllArguments("Weekly report"))} }

\* What n8n answers to GET /api/v1/workflows: the fetch rejects, or a response
\* that is ok or not, whose body is JSON or not, with a data array or none.
Listings ==
    { [rejected |-> TRUE, ok |-> FALSE, json |-> FALSE, hasData |-> FALSE, data |-> <<>>],
      [rejected |-> FALSE, ok |-> FALSE, json |-> TRUE, hasData |-> FALSE, data |-> <<>>],
      [rejected |-> FALSE, ok |-> FALSE, json |-> TRUE, hasData |-> TRUE,
       data |-> <<"Daily digest">>],
      [rejected |-> FALSE, ok |-> TRUE, json |-> FALSE, hasData |-> FALSE, data |-> <<>>],
      [rejected |-> FALSE, ok |-> TRUE, json |-> TRUE, hasData |-> FALSE, data |-> <<>>] } \cup
    { [rejected |-> FALSE, ok |-> TRUE, json |-> TRUE, hasData |-> TRUE, data |-> d] :
        d \in { <<>>, <<"Other">>, <<"Other", "Daily digest">>,
                <<"Jarvis - Task Creator">>, <<"Other", "Weekly report", "Daily digest">> } }

\* What the webhook answers: the fetch rejects, or a response that is ok or not.
WebhookAnswers == {"rejected", "ok", "not ok"}

ListRequest == [method |-> "GET", url |-> "/api/v1/workflows"]
WebhookRequest(path) == [method |-> "POST", url |-> "/webhook/" \o path]

Returned200(result) == [status |-> 200, body |-> [success |-> TRUE, result |-> result]]
Answer(status, message) == [status |-> status, body |-> [error |-> message]]

InitHttp ==
    /\ mcp = [pc |-> "listening", req |-> Undefined, handler |-> "", called |-> <<>>,
              workflow_name |-> "", fetches |-> <<>>, listing |-> Undefined,
              outcome |-> Undefined, res |-> <<>>]
    /\ toolsServer = Undefined
    /\ memory = Undefined
    /\ agent = Undefined
    /\ pc = "analyze"
    /\ plan = NoPlan
    /\ nodes = <<>>
    /\ connections = <<>>
    /\ yOffset = 0
    /\ index = 0
    /\ n8nWorkflow = NoGraph
    /\ workflow_registry = <<>>
    /\ tasks = <<>>
    /\ planning_tasks = <<>>
    /\ earlier = NoCall
    /\ response = Undefined
    /\ analysisText = Undefined
    /\ jsonMatch = Undefined
    /\ analysis = Undefined
    /\ error = NoError
    /\ log = <<>>

\* What the HTTP server leaves alone.
httpUnused == <<pc, plan, nodes, connections, yOffset, index, n8nWorkflow,
                workflow_registry, tasks, planning_tasks, earlier, analyzerVars,
                error, log, toolsServer, memory, agent>>

Threw(message) == [threw |-> TRUE, value |-> message]
Resolved(result) == [threw |-> FALSE, value |-> result]

\* The handler a tool name selects in the if-else chain.
HandlerOf(name) ==
    CASE name = "conversation_search" -> "handleConversationSearch"
      [] name = "save_context" -> "handleSaveContext"
      [] name = "trigger_workflow" -> "handleTriggerWorkflow"
      [] name = "create_task" -> "handleCreateTask"
      [] name = "get_agent_status" -> "handleGetAgentStatus"
      [] OTHER -> ""

\* The chain with create_task sent to handleTriggerWorkflow.
ToolsCall_WrongHandler ==
    /\ mcp.pc = "listening"
    /\ \E req \in HttpRequests :
           IF ~Truthy(req.name) \/ ~Truthy(req.arguments)
           THEN mcp' = [mcp EXCEPT !.req = req, !.pc = "answered",
                          !.res = Append(@, Answer(400, "Missing name or arguments"))]
           ELSE LET selected == IF req.name.v = "create_task" THEN "handleTriggerWorkflow"
                                ELSE HandlerOf(req.name.v)
                IN  IF selected # ""
                    THEN mcp' = [mcp EXCEPT !.req = req, !.pc = "handler",
                                   !.handler = selected,
                                   !.called = Append(@, selected)]
                    ELSE mcp' = [mcp EXCEPT !.req = req, !.pc = "answered",
                                   !.res = Append(@, Answer(400, "Unknown tool: " \o req.name.v))]
    /\ UNCHANGED httpUnused

\* app.post('/mcp/tools/call'): the test of name and arguments and the chain of
\* comparisons, up to the call of the handler.
ToolsCall ==
    /\ mcp.pc = "listening"
    /\ \E req \in HttpRequests :
           IF ~Truthy(req.name) \/ ~Truthy(req.arguments)
           THEN mcp' = [mcp EXCEPT !.req = req, !.pc = "answered",
                          !.res = Append(@, Answer(400, "Missing name or arguments"))]
           ELSE IF HandlerOf(req.name.v) # ""
           THEN mcp' = [mcp EXCEPT !.req = req, !.pc = "handler",
                          !.handler = HandlerOf(req.name.v),
                          !.called = Append(@, HandlerOf(req.name.v))]
           ELSE mcp' = [mcp EXCEPT !.req = req, !.pc = "answered",
                          !.res = Append(@, Answer(400, "Unknown tool: " \o req.name.v))]
    /\ UNCHANGED httpUnused

\* handleConversationSearch: the query is required; the query to Supabase
\* reports an error or returns rows.
handleConversationSearch ==
    /\ mcp.pc = "handler"
    /\ mcp.handler = "handleConversationSearch"
    /\ IF ~Truthy(mcp.req.arguments.v.query)
       THEN mcp' = [mcp EXCEPT !.pc = "settled", !.outcome = Threw("Query is required")]
       ELSE \E failed \in BOOLEAN :
                mcp' = [mcp EXCEPT !.pc = "settled",
                          !.outcome = IF failed
                                      THEN Threw("Semantic search failed: database error")
                                      ELSE Resolved([query |-> mcp.req.arguments.v.query,
                                                     results_count |-> 0])]
    /\ UNCHANGED httpUnused

\* handleSaveContext: three required arguments; the insert reports an error or
\* not.
handleSaveContext ==
    /\ mcp.pc = "handler"
    /\ mcp.handler = "handleSaveContext"
    /\ LET args == mcp.req.arguments.v
       IN  IF \/ ~Truthy(args.conversation_id)
              \/ ~Truthy(args.user_message)
              \/ ~Truthy(args.assistant_response)
           THEN mcp' = [mcp EXCEPT !.pc = "settled",
                          !.outcome = Threw("conversation_id, user_message, and assistant_response are required")]
           ELSE \E failed \in BOOLEAN :
                    mcp' = [mcp EXCEPT !.pc = "settled",
                              !.outcome = IF failed
                                          THEN Threw("Failed to save context: database error")
                                          ELSE Resolved([status |-> "saved",
                                                         conversation_id |-> args.conversation_id])]
    /\ UNCHANGED httpUnused

\* handleGetAgentStatus: an error of the query is caught and returned.
handleGetAgentStatus ==
    /\ mcp.pc = "handler"
    /\ mcp.handler = "handleGetAgentStatus"
    /\ \E failed \in BOOLEAN :
           mcp' = [mcp EXCEPT !.pc = "settled",
                     !.outcome = IF failed
                                 THEN Resolved([agents_count |-> 0, error |-> "database error"])
                                 ELSE Resolved([agents_count |-> 1, error |-> ""])]
    /\ UNCHANGED httpUnused

\* handleTriggerWorkflow up to its first await: the name is required, then the
\* workflows are listed.
handleTriggerWorkflow ==
    /\ mcp.pc = "handler"
    /\ mcp.handler = "handleTriggerWorkflow"
    /\ IF ~Truthy(mcp.req.arguments.v.workflow_name)
       THEN mcp' = [mcp EXCEPT !.pc = "settled",
                      !.outcome = Threw("workflow_name is required")]
       ELSE mcp' = [mcp EXCEPT !.pc = "listing",
                      !.workflow_name = mcp.req.arguments.v.workflow_name.v,
                      !.fetches = Append(@, ListRequest)]
    /\ UNCHANGED httpUnused

\* handleCreateTask up to the first await: platform and title are required,
\* then handleTriggerWorkflow is called for the workflow 'Jarvis - Task Creator'.
handleCreateTask ==
    /\ mcp.pc = "handler"
    /\ mcp.handler = "handleCreateTask"
    /\ LET args == mcp.req.arguments.v
       IN  IF ~Truthy(args.platform) \/ ~Truthy(args.title)
           THEN mcp' = [mcp EXCEPT !.pc = "settled",
                          !.outcome = Threw("platform and title are required")]
           ELSE mcp' = [mcp EXCEPT !.pc = "listing",
                          !.workflow_name = "Jarvis - Task Creator",
                          !.fetches = Append(@, ListRequest)]
    /\ UNCHANGED httpUnused

\* What handleTriggerWorkflow throws, as its caller passes it on.
TriggerThrew(message) ==
    IF mcp.handler = "handleCreateTask"
    THEN Threw("Failed to create task: Failed to trigger workflow: " \o message)
    ELSE Threw("Failed to trigger workflow: " \o message)

\* What the call resolves with when the webhook answered ok.
TriggerResolved ==
    IF mcp.handler = "handleCreateTask"
    THEN Resolved([status |-> "task_created", delegated_to |-> "n8n"])
    ELSE Resolved([status |-> "triggered", workflow_name |-> mcp.workflow_name])

\* The listing arrives: response.ok, response.json(), workflows.data.find by
\* name; when a workflow of that name is found its webhook is posted to.
ListingAnswered ==
    /\ mcp.pc = "listing"
    /\ \E listing \in Listings :
           LET found == \E i \in 1..Len(listing.data) : listing.data[i] = mcp.workflow_name
           IN  IF listing.rejected
               THEN mcp' = [mcp EXCEPT !.pc = "settled", !.listing = listing,
                              !.outcome = TriggerThrew("request failed")]
               ELSE IF ~listing.ok
               THEN mcp' = [mcp EXCEPT !.pc = "settled", !.listing = listing,
                              !.outcome = TriggerThrew("Failed to list n8n workflows")]
               ELSE IF ~listing.json
               THEN mcp' = [mcp EXCEPT !.pc = "settled", !.listing = listing,
                              !.outcome = TriggerThrew("invalid json response body")]
               ELSE IF ~listing.hasData
               THEN mcp' = [mcp EXCEPT !.pc = "settled", !.listing = listing,
                              !.outcome = TriggerThrew("Cannot read properties of undefined (reading 'find')")]
               ELSE IF ~found
               THEN mcp' = [mcp EXCEPT !.pc = "settled", !.listing = listing,
                              !.outcome = TriggerThrew("Workflow \"" \o mcp.workflow_name \o "\" not found")]
               ELSE mcp' = [mcp EXCEPT !.pc = "webhook", !.listing = listing,
                              !.fetches = Append(@, WebhookRequest(mcp.workflow_name))]
    /\ UNCHANGED httpUnused

\* The webhook answers.
WebhookAnswered ==
    /\ mcp.pc = "webhook"
    /\ \E answer \in WebhookAnswers :
           mcp' = [mcp EXCEPT !.pc = "settled",
                     !.outcome = CASE answer = "rejected" -> TriggerThrew("request failed")
                                   [] answer = "not ok" -> TriggerThrew("Webhook trigger failed: Not Found")
                                   [] OTHER -> TriggerResolved]
    /\ UNCHANGED httpUnused

\* The route answering a thrown error as a client error.
Respond_ClientError ==
    /\ mcp.pc = "settled"
    /\ mcp' = [mcp EXCEPT !.pc = "answered",
                 !.res = Append(@, IF mcp.outcome.threw
                                   THEN Answer(400, mcp.outcome.value)
                                   ELSE Returned200(mcp.outcome.value))]
    /\ UNCHANGED httpUnused

\* The await of the handler is over: res.json of the result, or the catch.
Respond ==
    /\ mcp.pc = "settled"
    /\ mcp' = [mcp EXCEPT !.pc = "answered",
                 !.res = Append(@, IF mcp.outcome.threw
                                   THEN Answer(500, mcp.outcome.value)
                                   ELSE Returned200(mcp.outcome.value))]
    /\ UNCHANGED httpUnused

NextHttp ==
    \/ ToolsCall
    \/ handleConversationSearch
    \/ handleSaveContext
    \/ handleTriggerWorkflow
    \/ handleCreateTask
    \/ handleGetAgentStatus
    \/ ListingAnswered
    \/ WebhookAnswered
    \/ Respond

SpecHttp == InitHttp /\ [][NextHttp]_vars

(***************************************************************************)
(* unnamed/part_000: the tools server.  One request to POST                *)
(* /mcp/tools/call for create_workflow_from_chat, for trigger_workflow or  *)
(* for a name the switch does not know; the two tables are those of the    *)
(* compiler.                                                               *)
(***************************************************************************)
\* toolArgs of the requests; priority 0 stands for an absent priority.
ToolArguments ==
    { JsObject([user_request |-> u, priority |-> q, workflow_name |-> w]) :
        u \in {Undefined, Str("Post the digest")},
        q \in {0, 7, 11},
        w \in {Undefined, Str("Daily digest")} }

ToolRequests ==
    { [tool_name |-> n, arguments |-> a] :
        n \in {Undefined, Str("create_workflow_from_chat"), Str("trigger_workflow"),
               Str("conversation_search")},
        a \in {Undefined} \cup ToolArguments }

\* The row handleCreateWorkflow inserts into workflow_registry.
CreatedWorkflow(request) ==
    [workflow_name |-> "workflow_1a2b3c4d",
     description |-> <<"Auto-generated: ", request>>,
     trigger_type |-> Str(s_manual),
     status |-> "draft",
     config |-> [prompt |-> request]]

\* The row it inserts into planning_tasks.
CreatedTask(request, priority) ==
    [title |-> <<"Workflow: ", request, "...">>,
     category |-> "workflow",
     priority |-> priority,
     status |-> "in_progress"]

\* CHECK (priority BETWEEN 1 AND 10) of planning_tasks.
TaskAccepts(row) == row.priority \in 1..10

Failure(message) == [status |-> 400, body |-> [success |-> FALSE, error |-> message]]
Success(result) == [status |-> 200, body |-> [success |-> TRUE, result |-> result]]

InitTools ==
    /\ toolsServer = [pc |-> "listening", req |-> Undefined, requests |-> <<>>,
                      saved |-> "", fetches |-> <<>>, listing |-> Undefined,
                      outcome |-> Undefined, res |-> <<>>]
    /\ mcp = Undefined
    /\ memory = Undefined
    /\ agent = Undefined
    /\ pc = "analyze"
    /\ plan = NoPlan
    /\ nodes = <<>>
    /\ connections = <<>>
    /\ yOffset = 0
    /\ index = 0
    /\ n8nWorkflow = NoGraph
    /\ workflow_registry = <<>>
    /\ tasks = <<>>
    /\ planning_tasks = <<>>
    /\ earlier = NoCall
    /\ response = Undefined
    /\ analysisText = Undefined
    /\ jsonMatch = Undefined
    /\ analysis = Undefined
    /\ error = NoError
    /\ log = <<>>

\* What the tools server leaves alone.
toolsUnused == <<pc, plan, nodes, connections, yOffset, index, n8nWorkflow,
                 tasks, earlier, analyzerVars, error, log, mcp, memory, agent>>

\* The route up to the first await of the selected handler: the switch, the
\* reads of toolArgs, and the first request of the handler.
ToolsServerCall ==
    /\ toolsServer.pc = "listening"
    /\ \E req \in ToolRequests :
           LET known == /\ req.tool_name # Undefined
                        /\ req.tool_name.v \in {"create_workflow_from_chat", "trigger_workflow"}
           IN  IF ~known
               THEN toolsServer' = [toolsServer EXCEPT !.req = req, !.pc = "settled",
                        !.outcome = Threw("Unknown tool: " \o
                            (IF req.tool_name = Undefined THEN "undefined"
                             ELSE req.tool_name.v))]
               ELSE IF req.arguments = Undefined
               THEN toolsServer' = [toolsServer EXCEPT !.req = req, !.pc = "settled",
                        !.outcome = Threw("Cannot read properties of undefined")]
               ELSE IF req.tool_name.v = "create_workflow_from_chat"
               THEN toolsServer' = [toolsServer EXCEPT !.req = req, !.pc = "creating",
                        !.requests = Append(@,
                            InsertRequest("workflow_registry",
                                          CreatedWorkflow(req.arguments.v.user_request)))]
               ELSE toolsServer' = [toolsServer EXCEPT !.req = req, !.pc = "listing",
                        !.fetches = Append(@, ListRequest)]
    /\ UNCHANGED <<workflow_registry, planning_tasks, toolsUnused>>

\* The priority handleCreateWorkflow is called with: toolArgs.priority || 5.
PriorityOf(arguments) == IF arguments.priority = 0 THEN 5 ELSE arguments.priority

\* handleCreateWorkflow going on to the planning task whatever the insert reported.
CreateWorkflowSaved_ErrorIgnored ==
    /\ toolsServer.pc = "creating"
    /\ LET arguments == toolsServer.req.arguments.v
           row == CreatedWorkflow(arguments.user_request)
       IN  \E delivered \in BOOLEAN :
               /\ workflow_registry' =
                      IF delivered /\ RegistryAccepts(row)
                      THEN Append(workflow_registry, row) ELSE workflow_registry
               /\ IF arguments.user_request = Undefined
                  THEN toolsServer' = [toolsServer EXCEPT !.pc = "settled",
                           !.saved = IF delivered /\ RegistryAccepts(row) THEN "ok" ELSE "error",
                           !.outcome = Threw("Cannot read properties of undefined (reading 'substring')")]
                  ELSE toolsServer' = [toolsServer EXCEPT !.pc = "tasking",
                           !.saved = IF delivered /\ RegistryAccepts(row) THEN "ok" ELSE "error",
                           !.requests = Append(@,
                               InsertRequest("planning_tasks",
                                   CreatedTask(arguments.user_request, PriorityOf(arguments))))]
    /\ UNCHANGED <<planning_tasks, toolsUnused>>

\* handleCreateWorkflow after the insert into workflow_registry: an error is
\* thrown; else the title of the task is built and its insert issued.
CreateWorkflowSaved ==
    /\ toolsServer.pc = "creating"
    /\ LET arguments == toolsServer.req.arguments.v
           row == CreatedWorkflow(arguments.user_request)
       IN  \E delivered \in BOOLEAN :
               IF ~(delivered /\ RegistryAccepts(row))
               THEN /\ toolsServer' = [toolsServer EXCEPT !.pc = "settled",
                           !.saved = "error",
                           !.outcome = Threw("[object Object]")]
                    /\ UNCHANGED workflow_registry
               ELSE /\ workflow_registry' = Append(workflow_registry, row)
                    /\ IF arguments.user_request = Undefined
                       THEN toolsServer' = [toolsServer EXCEPT !.pc = "settled",
                                !.saved = "ok",
                                !.outcome = Threw("Cannot read properties of undefined (reading 'substring')")]
                       ELSE toolsServer' = [toolsServer EXCEPT !.pc = "tasking",
                                !.saved = "ok",
                                !.requests = Append(@,
                                    InsertRequest("planning_tasks",
                                        CreatedTask(arguments.user_request, PriorityOf(arguments))))]
    /\ UNCHANGED <<planning_tasks, toolsUnused>>

\* handleCreateWorkflow after the insert into planning_tasks, whose outcome it
\* does not read.
CreateWorkflowTasked ==
    /\ toolsServer.pc = "tasking"
    /\ LET arguments == toolsServer.req.arguments.v
           row == CreatedTask(arguments.user_request, PriorityOf(arguments))
       IN  \E delivered \in BOOLEAN :
               planning_tasks' =
                   IF delivered /\ TaskAccepts(row)
                   THEN Append(planning_tasks, row) ELSE planning_tasks
    /\ toolsServer' = [toolsServer EXCEPT !.pc = "settled",
           !.outcome = Resolved([success |-> TRUE, message |-> "Workflow created and added to planning tasks"])]
    /\ UNCHANGED <<workflow_registry, toolsUnused>>

\* What the catch of this handleTriggerWorkflow wraps.
TriggerFailures ==
    {"FetchError: request failed", "SyntaxError: invalid json response body",
     "TypeError: Cannot read properties of undefined (reading 'length')",
     "Error: Workflow not found"}

TriggerFailed(detail) == Threw("Failed to trigger workflow: " \o detail)

\* handleTriggerWorkflow after the listing: response.json(), the test of
\* workflows.data.length, and the post to the webhook of workflows.data[0].
\* response.ok is not read and no name is compared.
ToolsListingAnswered ==
    /\ toolsServer.pc = "listing"
    /\ \E listing \in Listings :
           IF listing.rejected
           THEN toolsServer' = [toolsServer EXCEPT !.pc = "settled", !.listing = listing,
                    !.outcome = TriggerFailed("FetchError: request failed")]
           ELSE IF ~listing.json
           THEN toolsServer' = [toolsServer EXCEPT !.pc = "settled", !.listing = listing,
                    !.outcome = TriggerFailed("SyntaxError: invalid json response body")]
           ELSE IF ~listing.hasData
           THEN toolsServer' = [toolsServer EXCEPT !.pc = "settled", !.listing = listing,
                    !.outcome = TriggerFailed("TypeError: Cannot read properties of undefined (reading 'length')")]
           ELSE IF Len(listing.data) = 0
           THEN toolsServer' = [toolsServer EXCEPT !.pc = "settled", !.listing = listing,
                    !.outcome = TriggerFailed("Error: Workflow not found")]
           ELSE toolsServer' = [toolsServer EXCEPT !.pc = "webhook", !.listing = listing,
                    !.fetches = Append(@, WebhookRequest(listing.data[1]))]
    /\ UNCHANGED <<workflow_registry, planning_tasks, toolsUnused>>

\* handleTriggerWorkflow after the webhook, whose status it does not read.
ToolsWebhookAnswered ==
    /\ toolsServer.pc = "webhook"
    /\ \E answer \in WebhookAnswers :
           toolsServer' = [toolsServer EXCEPT !.pc = "settled",
               !.outcome = IF answer = "rejected"
                           THEN TriggerFailed("FetchError: request failed")
                           ELSE Resolved([success |-> TRUE, message |-> "Workflow triggered"])]
    /\ UNCHANGED <<workflow_registry, planning_tasks, toolsUnused>>

\* The route's res.json of the result, or its catch.
ToolsRespond ==
    /\ toolsServer.pc = "settled"
    /\ toolsServer' = [toolsServer EXCEPT !.pc = "answered",
           !.res = Append(@, IF toolsServer.outcome.threw
                             THEN Failure(toolsServer.outcome.value)
                             ELSE Success(toolsServer.outcome.value))]
    /\ UNCHANGED <<workflow_registry, planning_tasks, toolsUnused>>

NextTools ==
    \/ ToolsServerCall
    \/ CreateWorkflowSaved
    \/ CreateWorkflowTasked
    \/ ToolsListingAnswered
    \/ ToolsWebhookAnswered
    \/ ToolsRespond

SpecTools == InitTools /\ [][NextTools]_vars

(***************************************************************************)
(* services/memory-injector.ts: one chatWithMemory call, await by await,   *)
(* with the rows of chat_interactions and context_snapshots of its session *)
(* and the requests it sends, in order.                                    *)
(***************************************************************************)
UserMessages == {"Plan the Q4 campaign", "What did I decide?"}

\* response.content of the completion.
MemoryResponses ==
    { <<>>, <<[type |-> "text", text |-> "Gern."]>>, <<[type |-> "tool_use"]>>,
      <<[type |-> "text", text |-> ""], [type |-> "text", text |-> "Gern."]>> }

SelectRequest(table) == [op |-> "select", table |-> table]
UpsertRequest(table, row) == [op |-> "upsert", table |-> table, row |-> row]

\* The row storeInteraction inserts.
Interaction(sessionId, role, content) ==
    [session_id |-> sessionId, message_index |-> 0, role |-> role, content |-> content,
     tokens_used |-> (Len(content) + 3) \div 4]

\* The row createContextSnapshot upserts.
Snapshot(sessionId) ==
    [session_id |-> sessionId, summary |-> "Chat completed",
     key_decisions |-> <<>>, active_goals |-> <<>>]

InitMemory ==
    /\ memory \in { [pc |-> "start", userMessage |-> u, session |-> "", profile |-> <<>>,
                     response |-> <<>>, chat_interactions |-> <<>>,
                     context_snapshots |-> <<>>, log |-> <<>>, error |-> NoError] :
                    u \in UserMessages }
    /\ mcp = Undefined
    /\ toolsServer = Undefined
    /\ agent = Undefined
    /\ pc = "analyze"
    /\ plan = NoPlan
    /\ nodes = <<>>
    /\ connections = <<>>
    /\ yOffset = 0
    /\ index = 0
    /\ n8nWorkflow = NoGraph
    /\ workflow_registry = <<>>
    /\ tasks = <<>>
    /\ planning_tasks = <<>>
    /\ earlier = NoCall
    /\ response = Undefined
    /\ analysisText = Undefined
    /\ jsonMatch = Undefined
    /\ analysis = Undefined
    /\ error = NoError
    /\ log = <<>>

\* What chatWithMemory leaves alone.
memoryUnused == <<pc, plan, nodes, connections, yOffset, index, n8nWorkflow,
                  workflow_registry, tasks, planning_tasks, earlier, analyzerVars,
                  error, log, mcp, toolsServer, agent>>

\* getOrCreateSession without a hint: a new session is inserted; an error of
\* the insert is thrown.
getOrCreateSession ==
    /\ memory.pc = "start"
    /\ \E failed \in BOOLEAN :
           memory' = [memory EXCEPT
               !.log = Append(@, InsertRequest("chat_sessions", [status |-> "active"])),
               !.pc = IF failed THEN "rejected" ELSE "session",
               !.error = IF failed THEN [name |-> "PostgrestError", message |-> "insert failed"]
                         ELSE NoError,
               !.session = IF failed THEN "" ELSE "session-1"]
    /\ UNCHANGED memoryUnused

\* getVolkanProfile: the rows, or none when the query failed.
getVolkanProfile ==
    /\ memory.pc = "session"
    /\ \E rows \in {<<>>, <<[dimension |-> "tone", value |-> "direct"]>>} :
           memory' = [memory EXCEPT
               !.log = Append(@, SelectRequest("volkan_agent_profile")),
               !.profile = rows,
               !.pc = "profile"]
    /\ UNCHANGED memoryUnused

\* searchRelevantMemories: a new session has no interactions yet.
searchRelevantMemories ==
    /\ memory.pc = "profile"
    /\ memory' = [memory EXCEPT
           !.log = Append(@, SelectRequest("chat_interactions")),
           !.pc = "memories"]
    /\ UNCHANGED memoryUnused

\* storeInteraction of the user message, whose outcome is not read.
StoreUserInteraction ==
    /\ memory.pc = "memories"
    /\ LET row == Interaction(memory.session, "user", memory.userMessage)
       IN  \E delivered \in BOOLEAN :
               memory' = [memory EXCEPT
                   !.log = Append(@, InsertRequest("chat_interactions", row)),
                   !.chat_interactions = IF delivered THEN Append(@, row) ELSE @,
                   !.pc = "stored"]
    /\ UNCHANGED memoryUnused

\* await anthropic.messages.create: answered, or failed and chatWithMemory
\* rejects.
CallClaude ==
    /\ memory.pc = "stored"
    /\ \/ \E content \in MemoryResponses :
              memory' = [memory EXCEPT
                  !.log = Append(@, CompletionRequest),
                  !.response = content,
                  !.pc = "responded"]
       \/ memory' = [memory EXCEPT
              !.log = Append(@, CompletionRequest),
              !.error = UpstreamError,
              !.pc = "rejected"]
    /\ UNCHANGED memoryUnused

\* assistantMessage is the text of content[0], or "" when that is no text
\* block; storeInteraction of it, whose outcome is not read.
StoreAssistantInteraction ==
    /\ memory.pc = "responded"
    /\ IF Len(memory.response) = 0
       THEN memory' = [memory EXCEPT !.pc = "rejected", !.error = TypeError("type")]
       ELSE LET assistantMessage == IF memory.response[1].type = "text"
                                    THEN memory.response[1].text ELSE ""
                row == Interaction(memory.session, "assistant", assistantMessage)
            IN  \E delivered \in BOOLEAN :
                    memory' = [memory EXCEPT
                        !.log = Append(@, InsertRequest("chat_interactions", row)),
                        !.chat_interactions = IF delivered THEN Append(@, row) ELSE @,
                        !.pc = "assistantStored"]
    /\ UNCHANGED memoryUnused

\* createContextSnapshot: the upsert, whose outcome is not read.
createContextSnapshot ==
    /\ memory.pc = "assistantStored"
    /\ \E delivered \in BOOLEAN :
           memory' = [memory EXCEPT
               !.log = Append(@, UpsertRequest("context_snapshots", Snapshot(memory.session))),
               !.context_snapshots = IF delivered THEN <<Snapshot(memory.session)>> ELSE @,
               !.pc = "done"]
    /\ UNCHANGED memoryUnused

NextMemory ==
    \/ getOrCreateSession
    \/ getVolkanProfile
    \/ searchRelevantMemories
    \/ StoreUserInteraction
    \/ CallClaude
    \/ StoreAssistantInteraction
    \/ createContextSnapshot

SpecMemory == InitMemory /\ [][NextMemory]_vars

(***************************************************************************)
(* unnamed/part_001: the loop of main, one completion request per turn and *)
(* one step per content block of the response.                             *)
(***************************************************************************)
\* The most completion requests one run of the loop sends here.
MaxTurns == 2

\* The most content blocks of one response here.
MaxBlocks == 2

ToolNames == {"query_postgres", "search_vectors"}
BlockKinds == {"text"} \cup ToolNames
StopReasons == {"tool_use", "end_turn"}

RECURSIVE ShapesOf(_)
ShapesOf(n) ==
    IF n = 0 THEN {<<>>}
    ELSE ShapesOf(n - 1) \cup
         { Append(shape, kind) : shape \in { x \in ShapesOf(n - 1) : Len(x) = n - 1 },
                                 kind \in BlockKinds }

\* The kinds of the blocks of a response: one that stops for tool use has a
\* tool_use block, one that ends the turn has none.
Shapes(stop) ==
    { shape \in ShapesOf(MaxBlocks) :
        (stop = "tool_use") <=> (\E i \in 1..Len(shape) : shape[i] \in ToolNames) }

\* The content block of a kind at a place of the response of a turn.
Block(kind, turn, i) ==
    IF kind = "text" THEN [type |-> "text", text |-> "Let me look."]
    ELSE [type |-> "tool_use", id |-> [turn |-> turn, block |-> i], name |-> kind]

executeTool(toolName) ==
    IF toolName = "query_postgres" THEN "Query executed"
    ELSE IF toolName = "search_vectors" THEN "Semantic search"
    ELSE "Tool not found"

FirstMessage ==
    [role |-> "user", content |-> "Search for any interactions about budget planning"]

InitDemo ==
    /\ agent = [pc |-> "request", messages |-> <<FirstMessage>>, responses |-> <<>>,
                block |-> 0, continueLoop |-> TRUE, error |-> NoError]
    /\ mcp = Undefined
    /\ toolsServer = Undefined
    /\ memory = Undefined
    /\ pc = "analyze"
    /\ plan = NoPlan
    /\ nodes = <<>>
    /\ connections = <<>>
    /\ yOffset = 0
    /\ index = 0
    /\ n8nWorkflow = NoGraph
    /\ workflow_registry = <<>>
    /\ tasks = <<>>
    /\ planning_tasks = <<>>
    /\ earlier = NoCall
    /\ response = Undefined
    /\ analysisText = Undefined
    /\ jsonMatch = Undefined
    /\ analysis = Undefined
    /\ error = NoError
    /\ log = <<>>

\* What main leaves alone.
demoUnused == <<pc, plan, nodes, connections, yOffset, index, n8nWorkflow,
                workflow_registry, tasks, planning_tasks, earlier, analyzerVars,
                error, log, mcp, toolsServer, memory>>

\* while (continueLoop) { response = await client.messages.create(...) }
DemoRequest ==
    /\ agent.pc = "request"
    /\ agent.continueLoop
    /\ Len(agent.responses) < MaxTurns
    /\ LET turn == Len(agent.responses) + 1
       IN  \E stop \in StopReasons : \E shape \in Shapes(stop) :
               agent' = [agent EXCEPT
                   !.responses = Append(@,
                       [stop_reason |-> stop,
                        content |-> [i \in 1..Len(shape) |-> Block(shape[i], turn, i)],
                        sent |-> agent.messages]),
                   !.block = 1,
                   !.pc = "blocks"]
    /\ UNCHANGED demoUnused

\* The completion request fails and main rejects.
DemoRequestFailed ==
    /\ agent.pc = "request"
    /\ agent.continueLoop
    /\ Len(agent.responses) < MaxTurns
    /\ agent' = [agent EXCEPT !.pc = "rejected", !.error = UpstreamError]
    /\ UNCHANGED demoUnused

\* One pass of for (const block of response.content): a text block is
\* printed; a tool_use block is executed, then the response is pushed as an
\* assistant message and the result as a user message.
DemoBlock ==
    /\ agent.pc = "blocks"
    /\ LET resp == agent.responses[Len(agent.responses)]
       IN  /\ agent.block <= Len(resp.content)
           /\ LET block == resp.content[agent.block]
              IN  agent' = [agent EXCEPT
                      !.messages =
                          IF block.type = "tool_use"
                          THEN @ \o << [role |-> "assistant", content |-> resp.content],
                                       [role |-> "user",
                                        content |-> << [type |-> "tool_result",
                                                        tool_use_id |-> block.id,
                                                        content |-> executeTool(block.name)] >>] >>
                          ELSE @,
                      !.block = @ + 1]
    /\ UNCHANGED demoUnused

\* After the last block: continueLoop = (response.stop_reason === "tool_use").
DemoLoopEnd ==
    /\ agent.pc = "blocks"
    /\ LET resp == agent.responses[Len(agent.responses)]
       IN  /\ agent.block > Len(resp.content)
           /\ agent' = [agent EXCEPT
                  !.continueLoop = (resp.stop_reason = "tool_use"),
                  !.block = 0,
                  !.pc = IF resp.stop_reason = "tool_use" THEN "request" ELSE "done"]
    /\ UNCHANGED demoUnused

NextDemo ==
    \/ DemoRequest
    \/ DemoRequestFailed
    \/ DemoBlock
    \/ DemoLoopEnd

SpecDemo == InitDemo /\ [][NextDemo]_vars

(***************************************************************************)
(* What the claims speak of.                                               *)
(***************************************************************************)
\* generateN8NWorkflow has returned a graph for the current plan.
Returned == n8nWorkflow # NoGraph

HasTrigger == Len(plan.triggers) > 0
StepCount == Len(plan.steps)

\* The edges of a graph, one per entry of a connection list.
EdgeSlots(g) ==
    UNION { { <<src, k>> : k \in 1..Len(g.connections[src]) } : src \in DOMAIN g.connections }
EdgeCount(g) == Cardinality(EdgeSlots(g))
Edges(g) == { <<e[1], g.connections[e[1]][e[2]].node>> : e \in EdgeSlots(g) }

NodeIds(g) == [i \in 1..Len(g.nodes) |-> g.nodes[i].id]

\* The edges are those of the one path through the nodes in nodes order.
IsPathThroughNodes(g) ==
    /\ \A i, j \in 1..Len(g.nodes) : g.nodes[i].id = g.nodes[j].id => i = j
    /\ Edges(g) = { <<g.nodes[i].id, g.nodes[i + 1].id>> : i \in 1..(Len(g.nodes) - 1) }
    /\ EdgeCount(g) = Cardinality(Edges(g))

\* Number of nodes before the step nodes.
Lead == IF HasTrigger THEN 1 ELSE 0

\* C1: with a non-empty triggers sequence and N steps the graph has N+1 nodes and
\* N edges, and the edges are the single path trigger -> node_0 -> ... -> node_{N-1}.
C1_TriggerPath ==
    (Returned /\ HasTrigger) =>
        /\ Len(n8nWorkflow.nodes) = StepCount + 1
        /\ EdgeCount(n8nWorkflow) = StepCount
        /\ NodeIds(n8nWorkflow) = <<"trigger">> \o [i \in 1..StepCount |-> NodeId(i - 1)]
        /\ IsPathThroughNodes(n8nWorkflow)

C1_Witness ==
    Returned /\ HasTrigger /\ StepCount >= 2 /\ EdgeCount(n8nWorkflow) = StepCount

\* C2: with an empty triggers sequence and N steps the graph has N nodes and N-1
\* edges when N >= 1, and no node and no edge when N = 0.
C2_NoTriggerCounts ==
    (Returned /\ ~HasTrigger) =>
        IF StepCount = 0
        THEN Len(n8nWorkflow.nodes) = 0 /\ EdgeCount(n8nWorkflow) = 0
        ELSE Len(n8nWorkflow.nodes) = StepCount /\ EdgeCount(n8nWorkflow) = StepCount - 1

C2_Witness ==
    Returned /\ ~HasTrigger /\ StepCount >= 2 /\ EdgeCount(n8nWorkflow) = StepCount - 1

\* C3: every node id is the source of at most one edge and the target of at most
\* one edge, every edge has type "main" and index 0, and the graph is a simple
\* path whatever the step types, "conditional" included.
C3_SimplePath ==
    Returned =>
        /\ \A src \in DOMAIN n8nWorkflow.connections :
               Len(n8nWorkflow.connections[src]) <= 1
        /\ \A i \in 1..Len(n8nWorkflow.nodes) :
               Cardinality({ e \in EdgeSlots(n8nWorkflow) :
                   n8nWorkflow.connections[e[1]][e[2]].node = n8nWorkflow.nodes[i].id }) <= 1
        /\ \A e \in EdgeSlots(n8nWorkflow) :
               /\ n8nWorkflow.connections[e[1]][e[2]].type = "main"
               /\ n8nWorkflow.connections[e[1]][e[2]].index = 0
        /\ IsPathThroughNodes(n8nWorkflow)

C3_Witness ==
    /\ Returned
    /\ StepCount >= 2
    /\ plan.steps[1].type = s_conditional
    /\ NodeId(0) \in DOMAIN n8nWorkflow.connections

\* C4: the nodes are the optional trigger node followed by the step nodes in plan
\* order: at most one node has id "trigger", it is the first node when there is
\* one, and the i-th node after it has the node type of steps[i].type and the
\* parameters steps[i].config.
C4_NodeOrder ==
    Returned =>
        /\ Cardinality({ i \in 1..Len(n8nWorkflow.nodes) :
               n8nWorkflow.nodes[i].id = "trigger" }) <= 1
        /\ \A i \in 1..Len(n8nWorkflow.nodes) :
               n8nWorkflow.nodes[i].id = "trigger" => i = 1
        /\ Len(n8nWorkflow.nodes) = Lead + StepCount
        /\ \A i \in 1..StepCount :
               /\ n8nWorkflow.nodes[Lead + i].id = NodeId(i - 1)
               /\ n8nWorkflow.nodes[Lead + i].type = getN8NNodeType(plan.steps[i].type)
               /\ n8nWorkflow.nodes[Lead + i].parameters = plan.steps[i].config

C4_Witness ==
    /\ Returned
    /\ HasTrigger
    /\ StepCount >= 2
    /\ plan.steps[1].config # plan.steps[2].config
    /\ n8nWorkflow.nodes[1].id = "trigger"

\* C5: every returned graph has active = false, and every row saveWorkflowPlan
\* stored holds that graph with status "draft" and an empty related_tasks list.
C5_DraftInactive ==
    /\ Returned => n8nWorkflow.active = FALSE
    /\ \A i \in 1..Len(workflow_registry) :
           /\ workflow_registry[i].status = "draft"
           /\ workflow_registry[i].related_tasks = <<>>
           /\ workflow_registry[i].config = n8nWorkflow
           /\ workflow_registry[i].config.active = FALSE

C5_Witness ==
    /\ Len(workflow_registry) = 1
    /\ Len(workflow_registry[1].config.nodes) >= 2
    /\ pc = "done"

\* C6: an invocation on a plan equal to the plan of an earlier invocation returns
\* a graph equal to the earlier one, whatever was compiled in between.
C6_Deterministic ==
    (Returned /\ earlier # NoCall /\ earlier.plan = plan) => earlier.graph = n8nWorkflow

C6_Witness ==
    /\ Returned
    /\ earlier # NoCall
    /\ earlier.plan = plan
    /\ Len(n8nWorkflow.nodes) >= 3

\* C7: a step whose type is no entry of the step-type table gets the default
\* HTTP-request node type.
C7_UnknownStepTypeDefault ==
    Returned =>
        \A i \in 1..StepCount :
            plan.steps[i].type \notin DOMAIN typeMap =>
                n8nWorkflow.nodes[Lead + i].type = Str(DefaultNodeType)

\* C8: no well-formed plan makes generateN8NWorkflow throw; with no steps the
\* graph holds the trigger node alone, with no steps and no triggers it is empty,
\* and with no triggers it holds the step nodes alone.
C8_NeverThrows ==
    (plan # NoPlan /\ WellFormed(plan)) =>
        /\ error \notin {TypeError("triggers"), TypeError("toLowerCase")}
        /\ Returned =>
            /\ (StepCount = 0 /\ HasTrigger) =>
                   /\ NodeIds(n8nWorkflow) = <<"trigger">>
                   /\ EdgeCount(n8nWorkflow) = 0
            /\ (StepCount = 0 /\ ~HasTrigger) =>
                   /\ n8nWorkflow.nodes = <<>>
                   /\ EdgeCount(n8nWorkflow) = 0
            /\ (StepCount > 0 /\ ~HasTrigger) =>
                   NodeIds(n8nWorkflow) = [i \in 1..StepCount |-> NodeId(i - 1)]

C8_Witness ==
    Returned /\ WellFormed(plan) /\ StepCount = 0 /\ Len(plan.triggers) = MaxTriggers

\* C9: the trigger node's type is the table entry of the lower-cased first
\* trigger when the table has one, and the generic webhook trigger type for any
\* other kind.
C9_TriggerTypeFromTable ==
    (Returned /\ HasTrigger) =>
        LET kind == toLowerCase(plan.triggers[1].v)
        IN  n8nWorkflow.nodes[1].type =
                IF kind \in DOMAIN triggerMap
                THEN Str(triggerMap[kind])
                ELSE Str(DefaultTriggerNodeType)

\* C10: the trigger node's parameters are a 1-hour interval for kind "schedule",
\* the default path and response mode for kind "webhook", and empty for every
\* other kind, an unrecognized kind with the webhook node type included.
C10_TriggerParameters ==
    (Returned /\ HasTrigger) =>
        LET kind == toLowerCase(plan.triggers[1].v)
        IN  n8nWorkflow.nodes[1].parameters =
                IF kind = s_schedule
                THEN [interval |-> <<1>>, unit |-> "hours"]
                ELSE IF kind = s_webhook
                THEN [path |-> "workflow-trigger", responseMode |-> "onReceived"]
                ELSE EmptyObject

C10_Witness ==
    /\ Returned
    /\ HasTrigger
    /\ plan.triggers[1] = Str(s_cron)
    /\ n8nWorkflow.nodes[1].type = Str(DefaultTriggerNodeType)
    /\ n8nWorkflow.nodes[1].parameters = EmptyObject

\* C11: each step node's parameters are the step's config, no key added, removed
\* or changed, and generateN8NWorkflow leaves the plan it is given unchanged.
C11_ConfigVerbatim ==
    /\ [](Returned =>
            \A i \in 1..StepCount :
                /\ DOMAIN n8nWorkflow.nodes[Lead + i].parameters = DOMAIN plan.steps[i].config
                /\ \A k \in DOMAIN plan.steps[i].config :
                       n8nWorkflow.nodes[Lead + i].parameters[k] = plan.steps[i].config[k])
    /\ [][(pc \in {"generate", "trigger", "steps"}) => (plan' = plan)]_vars

C11_Witness ==
    /\ Returned
    /\ StepCount >= 2
    /\ plan.steps[1].config # EmptyObject
    /\ plan.steps[2].config = EmptyObject

(***************************************************************************)
(* What the claims about analyzeWorkflowRequest speak of.                  *)
(***************************************************************************)
\* analyzeWorkflowRequest has read the text of the completion.
TextRead == analysisText # Undefined
\* The text it read.
Text == analysisText.v
\* analyzeWorkflowRequest has returned.
Analyzed == analysis # Undefined

\* A well-formed JSON object: {}, {members} or {members, "plan": {members}}.
WellFormedObject(text) ==
    \/ text = <<LBrace, RBrace>>
    \/ Len(text) = 3 /\ text[1] = LBrace /\ IsMembers(text[2]) /\ text[3] = RBrace
    \/ /\ Len(text) = 6
       /\ text[1] = LBrace /\ IsMembers(text[2]) /\ text[3] = LBrace
       /\ IsPlanMembers(text[4]) /\ text[5] = RBrace /\ text[6] = RBrace

\* A well-formed JSON object starts at place i of the text.
ObjectStartsAt(text, i) ==
    \E j \in i..Len(text) : WellFormedObject(SubSeq(text, i, j))

\* The object at places i..i+5 of the text has the four required members.
RequiredObjectAt(text, i) ==
    /\ i + 5 <= Len(text)
    /\ WellFormedObject(SubSeq(text, i, i + 5))
    /\ text[i + 1].members.intent # Undefined
    /\ text[i + 1].members.requiredServices # Undefined
    /\ text[i + 1].members.complexity # Undefined

\* C12 as stated: the plan returned is that of the first well-formed JSON object
\* of the text that has the required members, whatever surrounds it.
C12_FirstObjectAnywhere ==
    TextRead =>
        \A i \in 1..Len(Text) :
            ( /\ RequiredObjectAt(Text, i)
              /\ \A k \in 1..(i - 1) : ~ObjectStartsAt(Text, k) ) =>
                Analyzed /\ analysis.plan = Text[i + 3].plan

\* C12 as amended: the same, where no "{" comes before the object and no "}"
\* comes after it.
C12_FirstObjectInBraceFreeProse ==
    TextRead =>
        \A i \in 1..Len(Text) :
            ( /\ RequiredObjectAt(Text, i)
              /\ \A k \in 1..(i - 1) : Text[k] # LBrace
              /\ \A k \in (i + 6)..Len(Text) : Text[k] # RBrace ) =>
                Analyzed /\ analysis.plan = Text[i + 3].plan

C12_Witness ==
    /\ Analyzed
    /\ Len(Text) = 8
    /\ Text[1] = Prose
    /\ Text[8] = Prose
    /\ RequiredObjectAt(Text, 2)
    /\ analysis.plan = Text[5].plan
    /\ Len(analysis.plan.steps) >= 1

\* C13: where the text has a "{" and somewhere after it a "}", the candidate is
\* the text from its first "{" to its last "}".
C13_FirstToLastBrace ==
    TextRead =>
        LET opens == { i \in 1..Len(Text) : Text[i] = LBrace }
            closes == { j \in 1..Len(Text) : Text[j] = RBrace }
        IN  (\E i \in opens : \E j \in closes : i < j) =>
                jsonMatch = Match(SubSeq(Text,
                                CHOOSE i \in opens : \A k \in opens : i <= k,
                                CHOOSE j \in closes : \A k \in closes : j >= k))

C13_Witness ==
    /\ TextRead
    /\ jsonMatch # Null
    /\ Len(jsonMatch.v) = 6
    /\ Len(Text) = 8
    /\ Text[1] = RBrace
    /\ Text[8] = LBrace

\* C14: where no "{" of the text is followed by a "}", in particular where the
\* text has no "{", analyzeWorkflowRequest throws the extraction error and
\* returns nothing.
C14_ExtractionError ==
    ( /\ TextRead
      /\ ~\E i, j \in 1..Len(Text) :
             i < j /\ Text[i] = LBrace /\ Text[j] = RBrace ) =>
        /\ error = ExtractionError
        /\ ~Analyzed
        /\ plan = NoPlan
        /\ pc \in {"threw", "rejected"}

C14_Witness ==
    /\ TextRead
    /\ Len(Text) > 0
    /\ \A i \in 1..Len(Text) : Text[i] # LBrace
    /\ error = ExtractionError
    /\ pc = "rejected"

\* C15: where a candidate is found that is no well-formed JSON,
\* analyzeWorkflowRequest throws the parser's SyntaxError, which is neither the
\* extraction error nor the TypeError a missing member causes.
C15_ParseError ==
    ( /\ TextRead
      /\ jsonMatch # Null
      /\ ~WellFormedObject(jsonMatch.v) ) =>
        /\ error # NoError
        /\ error.name = "SyntaxError"
        /\ error # ExtractionError
        /\ error.name # "TypeError"
        /\ ~Analyzed
        /\ pc \in {"threw", "rejected"}

C15_Witness ==
    /\ TextRead
    /\ jsonMatch = Match(<<LBrace, Prose, RBrace>>)
    /\ error = SyntaxError
    /\ pc = "rejected"

\* C16: analyzeWorkflowRequest returns only an object that has intent,
\* requiredServices, complexity and plan, with complexity one of "simple",
\* "moderate", "complex".
C16_ShapeChecked ==
    Analyzed =>
        /\ analysis.intent # Undefined
        /\ analysis.requiredServices # Undefined
        /\ analysis.plan # Undefined
        /\ analysis.complexity \in {Str("simple"), Str("moderate"), Str("complex")}

(***************************************************************************)
(* What the claims about chat2Workflow speak of.                           *)
(***************************************************************************)
\* The errors analyzeWorkflowRequest ends with.
AnalyzerErrors == {UpstreamError, TypeError("type"), ExtractionError, SyntaxError}
AnalyzerFailed == error \in AnalyzerErrors

\* C17: when analyzeWorkflowRequest fails, chat2Workflow ends with that error
\* and nothing else has happened: no node, no graph, no row in either table, no
\* request but the completion request.
C17_AllOrNothing ==
    AnalyzerFailed =>
        /\ pc \in {"threw", "rejected"}
        /\ ~Analyzed
        /\ plan = NoPlan
        /\ nodes = <<>>
        /\ n8nWorkflow = NoGraph
        /\ workflow_registry = <<>>
        /\ tasks = <<>>
        /\ planning_tasks = <<>>
        /\ log = <<CompletionRequest>>

C17_Witness ==
    /\ pc = "rejected"
    /\ error \in AnalyzerErrors \ {UpstreamError}
    /\ jsonMatch # Undefined
    /\ jsonMatch # Null
    /\ Len(jsonMatch.v) = 6
    /\ log = <<CompletionRequest>>

\* The requests of the log that are inserts, and those into one table.
IsInsert(request) == request.op = "insert"
IsInsertInto(request, table) == IsInsert(request) /\ request.table = table

\* C18: the completion request comes first, the insert into workflow_registry
\* second and the inserts into planning_tasks after it; an insert is issued only
\* when the analysis and the whole graph are there, and the row of
\* workflow_registry carries that graph.
C18_StagesInOrder ==
    /\ Len(log) > 0 => log[1] = CompletionRequest
    /\ \A i \in 1..Len(log) :
           IsInsert(log[i]) =>
               /\ Analyzed
               /\ Returned
               /\ Len(n8nWorkflow.nodes) = Lead + StepCount
               /\ IsInsertInto(log[i], "workflow_registry") =>
                      /\ i = 2
                      /\ log[i].row.config = n8nWorkflow
               /\ IsInsertInto(log[i], "planning_tasks") =>
                      /\ i > 2
                      /\ IsInsertInto(log[2], "workflow_registry")
    /\ pc \in {"analyze", "respond"} => ~Analyzed /\ ~Returned /\ nodes = <<>>
    /\ pc \in {"analyzed", "generate", "trigger", "steps"} =>
           Analyzed /\ ~Returned /\ Len(log) = 1
    /\ pc = "generated" => Len(log) = 1
    /\ pc = "saved" => Len(log) = 2

C18_Witness ==
    /\ pc = "done"
    /\ HasTrigger
    /\ StepCount = 1
    /\ Len(log) = 4
    /\ IsInsertInto(log[2], "workflow_registry")
    /\ IsInsertInto(log[4], "planning_tasks")

\* The number of steps, 0 while there is no plan.
StepCountOrZero == IF plan = NoPlan THEN 0 ELSE StepCount

\* The inserts into planning_tasks, in the order they were issued.
IsTaskInsert(request) == IsInsertInto(request, "planning_tasks")
TaskInserts == SelectSeq(log, IsTaskInsert)

\* C19: the first insert into planning_tasks is the review task of the plan, the
\* one after it the task of steps[1], and so on in step order, each with its
\* step's id and name; when createPlanningTasks is over there are N+1 of them.
C19_ReviewThenSteps ==
    /\ Len(TaskInserts) > 0 =>
           /\ TaskInserts[1].row.title = "Review workflow: " \o plan.name
           /\ TaskInserts[1].row.metadata = [workflow_plan |-> plan]
    /\ Len(TaskInserts) <= StepCountOrZero + 1
    /\ \A i \in 2..Len(TaskInserts) :
           /\ TaskInserts[i].row.title = "Configure: " \o plan.steps[i - 1].name
           /\ TaskInserts[i].row.metadata = [step_id |-> plan.steps[i - 1].id]
    /\ pc = "done" => Len(TaskInserts) = StepCount + 1

C19_Witness ==
    /\ pc = "done"
    /\ StepCount = 2
    /\ plan.steps[1].name # plan.steps[2].name
    /\ Len(TaskInserts) = 3
    /\ Len(planning_tasks) = 3

\* The completion requests issued so far.
CompletionCalls == Cardinality({ i \in 1..Len(log) : log[i] = CompletionRequest })

\* C20: one compilation issues at most one completion request, whatever error
\* ends it, and none once it has ended.
C20_NoRetry ==
    /\ CompletionCalls <= 1
    /\ pc # "analyze" => CompletionCalls = 1

C20_Witness ==
    /\ pc = "rejected"
    /\ error = UpstreamError
    /\ CompletionCalls = 1

\* The places of the response's content that hold a text block.
TextBlocks == { i \in 1..Len(response) : response[i].type = "text" }

\* C21: the text analyzeWorkflowRequest works on is that of the first block of
\* type text of the content, whatever blocks come before or after it.
C21_FirstTextBlock ==
    (TextRead /\ TextBlocks # {}) =>
        Text = response[CHOOSE i \in TextBlocks : \A k \in TextBlocks : i <= k].text

\* C24: in a returned graph the trigger node is at x = 0 and every step node at
\* x = 400; the first node is at y = 0 and each node 150 below the one before.
C24_Positions ==
    Returned =>
        \A i \in 1..Len(n8nWorkflow.nodes) :
            /\ n8nWorkflow.nodes[i].position[1] = IF HasTrigger /\ i = 1 THEN 0 ELSE 400
            /\ n8nWorkflow.nodes[i].position[2] = 150 * (i - 1)

C24_Witness ==
    /\ Returned
    /\ HasTrigger
    /\ StepCount = 2
    /\ n8nWorkflow.nodes[3].position = <<400, 300>>

\* C25: an insert into planning_tasks is issued only when the row of the
\* workflow is in workflow_registry.
C25_TasksOnlyAfterSaved ==
    Len(TaskInserts) > 0 => Len(workflow_registry) = 1

\* The requests one call issues when it runs alone on plan p, in order.
AloneLog(p) ==
    <<CompletionRequest,
      InsertRequest("workflow_registry", WorkflowRecord(p, generateN8NWorkflow(p)))>> \o
    [i \in 1..Len(PlanningTasks(p)) |-> InsertRequest("planning_tasks", PlanningTasks(p)[i])]

\* In the specification of one call, the graph and the log are those values.
AloneAgrees ==
    /\ Returned => n8nWorkflow = generateN8NWorkflow(plan)
    /\ pc = "done" => log = AloneLog(plan)

\* C22: however two calls interleave, each call's graph is the graph of its own
\* plan and its requests are, in order, those it issues when it runs alone.
C22_Independent ==
    \A c \in Calls :
        IF plan[c] = NoPlan
        THEN /\ n8nWorkflow[c] = NoGraph
             /\ log[c] \in {<<>>, <<CompletionRequest>>}
        ELSE /\ n8nWorkflow[c] = generateN8NWorkflow(plan[c])
             /\ Len(log[c]) <= Len(AloneLog(plan[c]))
             /\ log[c] = SubSeq(AloneLog(plan[c]), 1, Len(log[c]))
             /\ pc[c] = "done" => log[c] = AloneLog(plan[c])

C22_Witness ==
    /\ pc[1] = "tasks"
    /\ pc[2] = "tasks"
    /\ tasks[1] # <<>>
    /\ tasks[2] # <<>>
    /\ plan[1] # plan[2]
    /\ Len(workflow_registry) = 1

\* The request of the HTTP server has name and arguments, both truthy.
HttpWellFormed == Truthy(mcp.req.name) /\ Truthy(mcp.req.arguments)
HttpReceived == mcp.pc # "listening"

C27_OneResponse ==
    /\ Len(mcp.res) <= 1
    /\ mcp.pc = "answered" <=> Len(mcp.res) = 1
    /\ mcp.pc = "answered" =>
           IF ~HttpWellFormed
           THEN mcp.called = <<>> /\ mcp.res[1] = Answer(400, "Missing name or arguments")
           ELSE IF mcp.req.name.v \notin ReadmeTools
           THEN mcp.called = <<>> /\ mcp.res[1].status = 400
           ELSE /\ Len(mcp.called) = 1
                /\ mcp.outcome # Undefined
                /\ mcp.res[1] = IF mcp.outcome.threw
                                THEN Answer(500, mcp.outcome.value)
                                ELSE Returned200(mcp.outcome.value)

C27_Witness ==
    /\ mcp.pc = "answered"
    /\ mcp.req.name = Str("trigger_workflow")
    /\ mcp.res = <<Answer(500, "Failed to trigger workflow: Workflow \"Weekly report\" not found")>>

\* The tools server has issued the insert of a planning task.
TaskInsertIssued ==
    \E i \in 1..Len(toolsServer.requests) :
        IsInsertInto(toolsServer.requests[i], "planning_tasks")

\* C26: the tools server issues the insert of the planning task only when the
\* insert into workflow_registry has succeeded; when that insert reported an
\* error, no planning task is inserted and the answer is success: false.
C26_TaskAfterWorkflowSaved ==
    /\ TaskInsertIssued =>
           /\ toolsServer.saved = "ok"
           /\ Len(workflow_registry) = 1
           /\ IsInsertInto(toolsServer.requests[1], "workflow_registry")
    /\ toolsServer.saved = "error" =>
           /\ ~TaskInsertIssued
           /\ planning_tasks = <<>>
           /\ toolsServer.outcome.threw
           /\ toolsServer.pc = "answered" =>
                  /\ Len(toolsServer.res) = 1
                  /\ toolsServer.res[1].body.success = FALSE

C26_Witness ==
    /\ toolsServer.pc = "answered"
    /\ toolsServer.saved = "error"
    /\ toolsServer.res[1].status = 400
    /\ planning_tasks = <<>>

\* The listing succeeded and has a workflow of the name asked for.
ListedByName(listing, name) ==
    /\ ~listing.rejected
    /\ listing.ok
    /\ listing.json
    /\ listing.hasData
    /\ \E i \in 1..Len(listing.data) : listing.data[i] = name

\* A request to a webhook is among the fetches.
WebhookPosted(fetches) == \E i \in 1..Len(fetches) : fetches[i].method = "POST"

\* The same property for handleTriggerWorkflow of unnamed/part_002.
HttpTriggerOnlyListed ==
    (mcp.pc # "listening" /\ mcp.listing # Undefined) =>
        IF ListedByName(mcp.listing, mcp.workflow_name)
        THEN mcp.pc # "listing"
        ELSE /\ ~WebhookPosted(mcp.fetches)
             /\ mcp.outcome.threw
             /\ mcp.outcome.value \in
                    { prefix \o "Failed to trigger workflow: " \o detail :
                        prefix \in {"", "Failed to create task: "},
                        detail \in {"request failed", "Failed to list n8n workflows",
                                    "invalid json response body",
                                    "Cannot read properties of undefined (reading 'find')",
                                    "Workflow \"" \o mcp.workflow_name \o "\" not found"} }

\* C28: handleTriggerWorkflow of the tools server posts to a webhook only when
\* the listing succeeded and has a workflow of the requested name; otherwise no
\* webhook request is sent and the call fails with "Failed to trigger workflow".
C28_TriggerOnlyListed ==
    (toolsServer.pc # "listening" /\ toolsServer.listing # Undefined) =>
        IF /\ toolsServer.req.arguments.v.workflow_name # Undefined
           /\ ListedByName(toolsServer.listing, toolsServer.req.arguments.v.workflow_name.v)
        THEN toolsServer.pc # "listing"
        ELSE /\ ~WebhookPosted(toolsServer.fetches)
             /\ toolsServer.outcome.threw
             /\ toolsServer.outcome.value \in
                    { "Failed to trigger workflow: " \o detail : detail \in TriggerFailures }

\* The places of the requests of chatWithMemory: the insert of an interaction
\* of a role, the completion request, the upsert of the snapshot.
StoredAt(role) ==
    { i \in 1..Len(memory.log) :
        /\ IsInsertInto(memory.log[i], "chat_interactions")
        /\ memory.log[i].row.role = role }
CompletionAt == { i \in 1..Len(memory.log) : memory.log[i] = CompletionRequest }
SnapshotAt == { i \in 1..Len(memory.log) : memory.log[i].op = "upsert" }

\* The order of the requests of chatWithMemory: the user interaction is sent
\* to the store before the completion is requested, the assistant interaction
\* and the snapshot only after the completion has returned, and a failed
\* completion is followed by no further request.
RequestsAroundCompletion ==
    /\ \A c \in CompletionAt : \E u \in StoredAt("user") : u < c
    /\ \A a \in StoredAt("assistant") :
           /\ memory.pc \in {"assistantStored", "done"}
           /\ \E c \in CompletionAt : c < a
    /\ \A n \in SnapshotAt :
           /\ memory.pc = "done"
           /\ \E a \in StoredAt("assistant") : a < n
    /\ memory.error = UpstreamError =>
           /\ memory.pc = "rejected"
           /\ Cardinality(StoredAt("user")) = 1
           /\ StoredAt("assistant") = {}
           /\ SnapshotAt = {}

\* C29: the user interaction is stored before the completion is requested; the
\* assistant interaction and the snapshot are stored only after the completion
\* has returned; when the completion fails the session has the user
\* interaction, no assistant interaction and no snapshot.
C29_StoreAroundCompletion ==
    /\ RequestsAroundCompletion
    /\ memory.pc \in {"stored", "responded"} =>
           \E i \in 1..Len(memory.chat_interactions) :
               memory.chat_interactions[i].role = "user"
    /\ memory.pc \in {"start", "session", "profile", "memories", "stored", "rejected"} =>
           /\ \A i \in 1..Len(memory.chat_interactions) :
                  memory.chat_interactions[i].role = "user"
           /\ memory.context_snapshots = <<>>
    /\ memory.error = UpstreamError =>
           \E i \in 1..Len(memory.chat_interactions) :
               memory.chat_interactions[i].role = "user"

\* The responses whose blocks have all been gone through.
Processed ==
    { k \in 1..Len(agent.responses) :
        k < Len(agent.responses) \/ agent.pc \in {"request", "done"} }

\* How often the response of a turn is in the message history as an assistant
\* message.
AssistantCopies(k) ==
    Cardinality({ i \in 1..Len(agent.messages) :
                    /\ agent.messages[i].role = "assistant"
                    /\ agent.messages[i].content = agent.responses[k].content })

\* A further completion request is sent exactly after a response that stopped
\* for tool use: every response but the last stopped for tool use, and the loop
\* goes on after the last one exactly when that one did.
RequestsFollowToolUse ==
    /\ \A k \in 1..(Len(agent.responses) - 1) : agent.responses[k].stop_reason = "tool_use"
    /\ \A k \in Processed :
           k = Len(agent.responses) =>
               /\ (agent.pc = "request") <=> (agent.responses[k].stop_reason = "tool_use")
               /\ agent.continueLoop <=> (agent.responses[k].stop_reason = "tool_use")

\* C30: in the demo loop a new completion request is sent exactly when the
\* previous response stopped for tool use, and each such response is in the
\* message history exactly once as an assistant message, however many tool_use
\* blocks it has.
C30_AssistantOnce ==
    /\ RequestsFollowToolUse
    /\ \A k \in Processed :
           agent.responses[k].stop_reason = "tool_use" => AssistantCopies(k) = 1

====
